---- MODULE Spec2Model ----
(***************************************************************************)
(* The AWS gateway setup tooling: ConfigurationManager of                  *)
(* gateway/aws_setup/config_manager.py over its config.yaml, .env and      *)
(* .env.example files, the result, state and configuration records of      *)
(* gateway/aws_setup/models.py, and the checks and main of                 *)
(* validate_setup.py.                                                      *)
(*                                                                         *)
(* Python strings are sequences of one-character strings, so that strip,   *)
(* isdigit, isalnum, replace, split and startswith are computed character  *)
(* by character.  A dict is the sequence of its items in insertion order.  *)
(***************************************************************************)
EXTENDS Integers, Sequences, FiniteSets, TLC

VARIABLES
    config,     \* the mapping handed to validate_config
    edits,      \* how many items of it have been assigned since it was built
    outcome,    \* what the validate_config call did: not called, returned, raised
    result,     \* a ValidationResult driven by add_error / add_warning
    state,      \* a SetupState driven by mark_step_completed / mark_step_failed
    setup,      \* a SetupResult driven by add_error
    last,       \* the last call made on result, state or setup
    config_yaml,    \* the file config_dir/config.yaml
    env_example,    \* the file config_dir/.env.example
    dot_env,        \* the file config_dir/.env
    environ,        \* os.environ
    reply,          \* what the last ConfigurationManager call did
    updates,        \* how many times the files have been written
    host,           \* what validate_setup.py finds on the machine it runs on
    pc,             \* where main() of validate_setup.py is
    results,        \* main()'s list of (check name, passed)
    stdout,         \* what main() has printed: check headers and the summary
    commands,       \* the commands run_command has run
    fix_script,     \* the file fix_setup.sh
    exit_code       \* the exit status of validate_setup.py

recordVars == <<config, edits, outcome, result, state, setup, last>>
managerVars == <<config_yaml, env_example, dot_env, environ, reply, updates>>
scriptVars == <<host, pc, results, stdout, commands, fix_script, exit_code>>
ioVars == <<managerVars, scriptVars>>
vars == <<recordVars, ioVars>>

(***************************************************************************)
(* str methods                                                             *)
(***************************************************************************)
\* characters str.strip() removes
Whitespace == {" ", "\t", "\n", "\r"}

AsciiDigits == {"0", "1", "2", "3", "4", "5", "6", "7", "8", "9"}

\* str.isdigit() also accepts digit characters outside ASCII, as SUPERSCRIPT TWO
OtherDigits == {"²"}

AsciiLetters ==
    {"a","b","c","d","e","f","g","h","i","j","k","l","m","n","o","p","q","r","s","t","u","v","w","x","y","z","A","B","C","D","E","F","G","H","I","J","K","L","M","N","O","P","Q","R","S","T","U","V","W","X","Y","Z"}

RECURSIVE lstrip(_)
lstrip(s) == IF s /= <<>> /\ Head(s) \in Whitespace THEN lstrip(Tail(s)) ELSE s

RECURSIVE rstrip(_)
rstrip(s) ==
    IF s /= <<>> /\ s[Len(s)] \in Whitespace
    THEN rstrip(SubSeq(s, 1, Len(s) - 1))
    ELSE s

strip(s) == rstrip(lstrip(s))

isdigit(s) == s /= <<>> /\ \A i \in DOMAIN s : s[i] \in AsciiDigits \cup OtherDigits

isalnum(s) ==
    s /= <<>> /\ \A i \in DOMAIN s : s[i] \in AsciiLetters \cup AsciiDigits \cup OtherDigits

\* s.replace(old, '') for a one-character old
replace(s, old) == SelectSeq(s, LAMBDA c : c /= old)

startswith(s, prefix) ==
    Len(s) >= Len(prefix) /\ SubSeq(s, 1, Len(prefix)) = prefix

\* sep in s, for a one-character sep
contains(s, sep) == \E i \in DOMAIN s : s[i] = sep

\* s.split(sep)[0]
split_first(s, sep) ==
    IF contains(s, sep)
    THEN LET at == CHOOSE i \in DOMAIN s :
                       s[i] = sep /\ \A j \in 1..(i - 1) : s[j] /= sep
         IN  SubSeq(s, 1, at - 1)
    ELSE s

\* the text of s, for interpolation into an f-string
RECURSIVE Join(_)
Join(s) == IF s = <<>> THEN "" ELSE Head(s) \o Join(Tail(s))

\* an f-string: its template and the interpolated texts, in order
F(fmt, args) == [fmt |-> fmt, args |-> args]

(***************************************************************************)
(* Values a parsed YAML mapping can hold: str, int (its decimal digits,    *)
(* most significant first) and None.                                       *)
(***************************************************************************)
StrValue(s) == [type |-> "str", chars |-> s]
IntValue(digits) == [type |-> "int", digits |-> digits]
NoneValue == [type |-> "NoneType"]

\* bool(v)
truthy(v) ==
    CASE v.type = "str" -> v.chars /= <<>>
      [] v.type = "int" -> \E i \in DOMAIN v.digits : v.digits[i] /= 0
      [] OTHER -> FALSE

DigitChars == <<"0", "1", "2", "3", "4", "5", "6", "7", "8", "9">>

\* str(v) for a str or an int
str(v) ==
    IF v.type = "str"
    THEN v.chars
    ELSE [i \in DOMAIN v.digits |-> DigitChars[v.digits[i] + 1]]

(***************************************************************************)
(* dict                                                                    *)
(***************************************************************************)
has_key(d, k) == \E i \in DOMAIN d : d[i].key = k

getitem(d, k) == d[CHOOSE i \in DOMAIN d : d[i].key = k].value

setitem(d, k, v) ==
    IF has_key(d, k)
    THEN [i \in DOMAIN d |-> IF d[i].key = k THEN [key |-> k, value |-> v] ELSE d[i]]
    ELSE Append(d, [key |-> k, value |-> v])

delitem(d, k) == SelectSeq(d, LAMBDA item : item.key /= k)

(***************************************************************************)
(* String literals of the sources                                          *)
(***************************************************************************)
\* 'YOUR_ACCOUNT_ID'
ph_account ==
    <<"Y","O","U","R","_","A","C","C","O","U","N","T","_","I","D">>

\* 'REGION'
ph_region ==
    <<"R","E","G","I","O","N">>

\* 'YOUR_USER_POOL_ID'
ph_pool ==
    <<"Y","O","U","R","_","U","S","E","R","_","P","O","O","L","_","I","D">>

\* 'YOUR_CLIENT_ID'
ph_client ==
    <<"Y","O","U","R","_","C","L","I","E","N","T","_","I","D">>

\* 'your-bucket-name'
ph_bucket ==
    <<"y","o","u","r","-","b","u","c","k","e","t","-","n","a","m","e">>

\* 'https://'
https_prefix ==
    <<"h","t","t","p","s",":","/","/">>

\* '123456789012'
acct_ok ==
    <<"1","2","3","4","5","6","7","8","9","0","1","2">>

\* 'us-east-1'
region_ok ==
    <<"u","s","-","e","a","s","t","-","1">>

\* 'test-role'
role_test ==
    <<"t","e","s","t","-","r","o","l","e">>

\* 'https://bedrock-agentcore-control.us-east-1.amazonaws.com'
url_gateway ==
    <<"h","t","t","p","s",":","/","/","b","e","d","r","o","c","k","-","a","g","e","n","t","c","o","r","e","-","c","o","n","t","r","o","l",".","u","s","-","e","a","s","t","-","1",".","a","m","a","z","o","n","a","w","s",".","c","o","m">>

\* 'https://us-east-1.prod.agent-credential-provider.cognito.aws.dev'
url_provider ==
    <<"h","t","t","p","s",":","/","/","u","s","-","e","a","s","t","-","1",".","p","r","o","d",".","a","g","e","n","t","-","c","r","e","d","e","n","t","i","a","l","-","p","r","o","v","i","d","e","r",".","c","o","g","n","i","t","o",".","a","w","s",".","d","e","v">>

\* 'us-east-1_ABCDEFGHI'
pool_ok ==
    <<"u","s","-","e","a","s","t","-","1","_","A","B","C","D","E","F","G","H","I">>

\* 'test-client-id'
client_test ==
    <<"t","e","s","t","-","c","l","i","e","n","t","-","i","d">>

\* 'test-bucket'
bucket_test ==
    <<"t","e","s","t","-","b","u","c","k","e","t">>

\* 'test-prefix'
prefix_test ==
    <<"t","e","s","t","-","p","r","e","f","i","x">>

\* 'test-provider'
provider_test ==
    <<"t","e","s","t","-","p","r","o","v","i","d","e","r">>

\* 'test-gateway'
gateway_test ==
    <<"t","e","s","t","-","g","a","t","e","w","a","y">>

\* 'Test gateway'
gwdesc_test ==
    <<"T","e","s","t"," ","g","a","t","e","w","a","y">>

\* 'SRE-Agent-Gateway-Role '
role_template ==
    <<"S","R","E","-","A","g","e","n","t","-","G","a","t","e","w","a","y","-","R","o","l","e"," ">>

\* 'devops-multiagent-demo'
prefix_template ==
    <<"d","e","v","o","p","s","-","m","u","l","t","i","a","g","e","n","t","-","d","e","m","o">>

\* 'sre-agent-api-key-credential-provider'
provider_template ==
    <<"s","r","e","-","a","g","e","n","t","-","a","p","i","-","k","e","y","-","c","r","e","d","e","n","t","i","a","l","-","p","r","o","v","i","d","e","r">>

\* 'arn:aws:bedrock-agentcore:REGION:ACCOUNT_ID:token-vault/default/apikeycredentialprovider/sre-agent-api-key-credential-provider'
arn_template ==
    <<"a","r","n",":","a","w","s",":","b","e","d","r","o","c","k","-","a","g","e","n","t","c","o","r","e",":","R","E","G","I","O","N",":","A","C","C","O","U","N","T","_","I","D",":","t","o","k","e","n","-","v","a","u","l","t","/","d","e","f","a","u","l","t","/","a","p","i","k","e","y","c","r","e","d","e","n","t","i","a","l","p","r","o","v","i","d","e","r","/","s","r","e","-","a","g","e","n","t","-","a","p","i","-","k","e","y","-","c","r","e","d","e","n","t","i","a","l","-","p","r","o","v","i","d","e","r">>

\* 'MyAgentCoreGateway'
gateway_template ==
    <<"M","y","A","g","e","n","t","C","o","r","e","G","a","t","e","w","a","y">>

\* 'AgentCore Gateway for API Integration'
gwdesc_template ==
    <<"A","g","e","n","t","C","o","r","e"," ","G","a","t","e","w","a","y"," ","f","o","r"," ","A","P","I"," ","I","n","t","e","g","r","a","t","i","o","n">>

\* 'S3 target for OpenAPI schema'
target_template ==
    <<"S","3"," ","t","a","r","g","e","t"," ","f","o","r"," ","O","p","e","n","A","P","I"," ","s","c","h","e","m","a">>

(***************************************************************************)
(* Further input values                                                    *)
(***************************************************************************)
\* '12345'
acct_short ==
    <<"1","2","3","4","5">>

\* ' 123456789012 '
acct_padded ==
    <<" ","1","2","3","4","5","6","7","8","9","0","1","2"," ">>

\* '12345678901a'
acct_alpha ==
    <<"1","2","3","4","5","6","7","8","9","0","1","a">>

\* '1234567890123'
acct_long ==
    <<"1","2","3","4","5","6","7","8","9","0","1","2","3">>

\* '   '
acct_blank ==
    <<" "," "," ">>

\* '²²²²²²²²²²²²'
acct_superscript ==
    <<"²","²","²","²","²","²","²","²","²","²","²","²">>

\* 'us_west_2'
region_underscore ==
    <<"u","s","_","w","e","s","t","_","2">>

\* 'us east 1'
region_space ==
    <<"u","s"," ","e","a","s","t"," ","1">>

\* '--'
region_dashes ==
    <<"-","-">>

\* ' us-east-1 '
region_padded ==
    <<" ","u","s","-","e","a","s","t","-","1"," ">>

\* 'http://example.com'
url_http ==
    <<"h","t","t","p",":","/","/","e","x","a","m","p","l","e",".","c","o","m">>

\* ' https://example.com'
url_padded ==
    <<" ","h","t","t","p","s",":","/","/","e","x","a","m","p","l","e",".","c","o","m">>

\* 'HTTPS://example.com'
url_upper ==
    <<"H","T","T","P","S",":","/","/","e","x","a","m","p","l","e",".","c","o","m">>

\* 'useast1ABCDEFGHI'
pool_nosep ==
    <<"u","s","e","a","s","t","1","A","B","C","D","E","F","G","H","I">>

\* '_ABCDEFGHI'
pool_noprefix ==
    <<"_","A","B","C","D","E","F","G","H","I">>

\* 'us.east.1_ABCDEFGHI'
pool_dot ==
    <<"u","s",".","e","a","s","t",".","1","_","A","B","C","D","E","F","G","H","I">>

(***************************************************************************)
(* models.py: ValidationResult                                             *)
(***************************************************************************)
VALID == "valid"
INVALID == "invalid"
WARNING == "warning"

ValidationError(field, message, suggestion, error_code) ==
    [field |-> field, message |-> message, suggestion |-> suggestion,
     error_code |-> error_code]

ValidationResult(is_valid, status) ==
    [is_valid |-> is_valid, status |-> status, errors |-> <<>>, warnings |-> <<>>]

\* add_error that forgets to clear is_valid
add_error_KeepsValid(r, field, message, suggestion) ==
    [r EXCEPT !.errors = Append(@, ValidationError(field, message, suggestion, "None")),
              !.status = INVALID]

add_error(r, field, message, suggestion) ==
    [r EXCEPT !.errors = Append(@, ValidationError(field, message, suggestion, "None")),
              !.is_valid = FALSE,
              !.status = INVALID]

\* add_warning that sets WARNING whatever the status was
add_warning_AlwaysWarning(r, message) ==
    [r EXCEPT !.warnings = Append(@, message), !.status = WARNING]

add_warning(r, message) ==
    [r EXCEPT !.warnings = Append(@, message),
              !.status = IF @ = VALID THEN WARNING ELSE @]

(***************************************************************************)
(* config_manager.py: ConfigurationManager.validate_config                 *)
(***************************************************************************)
required_aws_params ==
    <<"account_id", "region", "role_name", "endpoint_url",
      "credential_provider_endpoint_url">>

required_cognito_params == <<"user_pool_id", "client_id">>

required_gateway_params == <<"gateway_name", "credential_provider_name">>

placeholder_values ==
    <<ph_account, ph_region, <<>>, ph_pool, ph_client, ph_bucket>>

AccountIdLen == 12

\* param not in config or not config[param]
missing_or_empty(cfg, param) == ~has_key(cfg, param) \/ ~truthy(getitem(cfg, param))

\* one "for param in required_..." loop; the Cognito suggestion interpolates nothing
RECURSIVE check_required(_, _, _, _, _, _)
check_required(r, cfg, params, message_fmt, suggestion_fmt, suggestion_names_param) ==
    IF params = <<>>
    THEN r
    ELSE LET param == Head(params)
             r1 == IF missing_or_empty(cfg, param)
                   THEN add_error(r, param,
                            F(message_fmt, <<param>>),
                            F(suggestion_fmt,
                              IF suggestion_names_param THEN <<param>> ELSE <<>>))
                   ELSE r
         IN  check_required(r1, cfg, Tail(params), message_fmt, suggestion_fmt,
                            suggestion_names_param)

check_required_aws(r, cfg) ==
    check_required(r, cfg, required_aws_params,
        "Required AWS parameter '{param}' is missing or empty",
        "Add '{param}' to your config.yaml file", TRUE)

check_required_cognito(r, cfg) ==
    check_required(r, cfg, required_cognito_params,
        "Required Cognito parameter '{param}' is missing or empty",
        "Run deployment/setup_cognito.sh to generate Cognito configuration", FALSE)

check_required_gateway(r, cfg) ==
    check_required(r, cfg, required_gateway_params,
        "Required gateway parameter '{param}' is missing or empty",
        "Add '{param}' to your config.yaml file", TRUE)

\* 'k' in config and config['k']
present(cfg, k) == has_key(cfg, k) /\ truthy(getitem(cfg, k))

account_id_ok(account_id) == isdigit(account_id) /\ Len(account_id) = AccountIdLen

\* check_account_id without the .strip()
check_account_id_NoStrip(r, cfg) ==
    IF present(cfg, "account_id")
    THEN LET account_id == str(getitem(cfg, "account_id"))
         IN  IF ~account_id_ok(account_id)
             THEN add_error(r, "account_id",
                      F("Invalid AWS account ID format: {account_id}", <<Join(account_id)>>),
                      F("AWS account ID must be a 12-digit number", <<>>))
             ELSE r
    ELSE r

check_account_id(r, cfg) ==
    IF present(cfg, "account_id")
    THEN LET account_id == strip(str(getitem(cfg, "account_id")))
         IN  IF ~account_id_ok(account_id)
             THEN add_error(r, "account_id",
                      F("Invalid AWS account ID format: {account_id}", <<Join(account_id)>>),
                      F("AWS account ID must be a 12-digit number", <<>>))
             ELSE r
    ELSE r

\* the region check without .replace('_', '')
region_ok_format_NoUnderscore(region) == isalnum(replace(region, "-"))

region_ok_format(region) == isalnum(replace(replace(region, "-"), "_"))

\* check_region made fail-fast: skipped once an error has been recorded
check_region_FailFast(r, cfg) ==
    IF r.errors = <<>> /\ present(cfg, "region")
    THEN LET region == strip(getitem(cfg, "region").chars)
         IN  IF ~region_ok_format(region)
             THEN add_error(r, "region",
                      F("Invalid AWS region format: {region}", <<Join(region)>>),
                      F("AWS region should be in format like 'us-east-1'", <<>>))
             ELSE r
    ELSE r

check_region(r, cfg) ==
    IF present(cfg, "region")
    THEN LET region == strip(getitem(cfg, "region").chars)
         IN  IF ~region_ok_format(region)
             THEN add_error(r, "region",
                      F("Invalid AWS region format: {region}", <<Join(region)>>),
                      F("AWS region should be in format like 'us-east-1'", <<>>))
             ELSE r
    ELSE r

url_params == <<"endpoint_url", "credential_provider_endpoint_url">>

\* the URL check with the prefix 'http' in place of 'https://'
url_ok_AnyHttp(url) == startswith(url, <<"h", "t", "t", "p">>)

url_ok(url) == startswith(url, https_prefix)

RECURSIVE check_endpoint_urls(_, _, _)
check_endpoint_urls(r, cfg, params) ==
    IF params = <<>>
    THEN r
    ELSE LET url_param == Head(params)
             r1 == IF present(cfg, url_param)
                   THEN LET url == strip(getitem(cfg, url_param).chars)
                        IN  IF ~url_ok(url)
                            THEN add_error(r, url_param,
                                     F("Invalid endpoint URL: {url}", <<Join(url)>>),
                                     F("Endpoint URLs must use HTTPS", <<>>))
                            ELSE r
                   ELSE r
         IN  check_endpoint_urls(r1, cfg, Tail(params))

pool_id_ok(pool_id) ==
    contains(pool_id, "_") /\ isalnum(replace(split_first(pool_id, "_"), "-"))

check_user_pool_id(r, cfg) ==
    IF present(cfg, "user_pool_id")
    THEN LET pool_id == strip(getitem(cfg, "user_pool_id").chars)
         IN  IF ~pool_id_ok(pool_id)
             THEN add_error(r, "user_pool_id",
                      F("Invalid Cognito User Pool ID format: {pool_id}", <<Join(pool_id)>>),
                      F("User Pool ID should be in format 'region_POOLID'", <<>>))
             ELSE r
    ELSE r

\* isinstance(value, str) and value in placeholder_values
is_placeholder(value) ==
    value.type = "str" /\ \E i \in DOMAIN placeholder_values : placeholder_values[i] = value.chars

\* for key, value in config.items(), from item i on
RECURSIVE check_placeholders(_, _, _)
check_placeholders(r, cfg, i) ==
    IF i > Len(cfg)
    THEN r
    ELSE LET key == cfg[i].key
             value == cfg[i].value
             r1 == IF is_placeholder(value)
                   THEN add_error(r, key,
                            F("Configuration parameter '{key}' contains placeholder value: {value}",
                              <<key, Join(value.chars)>>),
                            F("Replace '{value}' with your actual {key}",
                              <<Join(value.chars), key>>))
                   ELSE r
         IN  check_placeholders(r1, cfg, i + 1)

\* the format checks call .strip() on the value itself: a truthy value that is
\* no str has no such method
strip_raises(cfg, k) == present(cfg, k) /\ getitem(cfg, k).type /= "str"

Return(value) == [kind |-> "return", value |-> value]
Raise(exc) == [kind |-> "raise", exc |-> exc]
NotCalled == [kind |-> "none"]

validate_config(cfg) ==
    LET r0 == ValidationResult(TRUE, VALID)
        r1 == check_required_aws(r0, cfg)
        r2 == check_required_cognito(r1, cfg)
        r3 == check_required_gateway(r2, cfg)
        r4 == check_account_id(r3, cfg)
        r5 == check_region(r4, cfg)
        r6 == check_endpoint_urls(r5, cfg, url_params)
        r7 == check_user_pool_id(r6, cfg)
        r8 == check_placeholders(r7, cfg, 1)
    IN  IF \/ strip_raises(cfg, "region")
           \/ \E i \in DOMAIN url_params : strip_raises(cfg, url_params[i])
           \/ strip_raises(cfg, "user_pool_id")
        THEN Raise("AttributeError")
        ELSE Return(r8)

(***************************************************************************)
(* Configurations: the test fixture, the template written by               *)
(* create_template_files, and the empty mapping of an empty document.      *)
(***************************************************************************)
Item(k, v) == [key |-> k, value |-> v]

sample_config_dict ==
    <<Item("account_id", StrValue(acct_ok)),
      Item("region", StrValue(region_ok)),
      Item("role_name", StrValue(role_test)),
      Item("endpoint_url", StrValue(url_gateway)),
      Item("credential_provider_endpoint_url", StrValue(url_provider)),
      Item("user_pool_id", StrValue(pool_ok)),
      Item("client_id", StrValue(client_test)),
      Item("s3_bucket", StrValue(bucket_test)),
      Item("s3_path_prefix", StrValue(prefix_test)),
      Item("credential_provider_name", StrValue(provider_test)),
      Item("gateway_name", StrValue(gateway_test)),
      Item("gateway_description", StrValue(gwdesc_test))>>

config_template ==
    <<Item("account_id", StrValue(ph_account)),
      Item("region", StrValue(region_ok)),
      Item("role_name", StrValue(role_template)),
      Item("endpoint_url", StrValue(url_gateway)),
      Item("credential_provider_endpoint_url", StrValue(url_provider)),
      Item("user_pool_id", StrValue(ph_pool)),
      Item("client_id", StrValue(ph_client)),
      Item("s3_bucket", StrValue(<<>>)),
      Item("s3_path_prefix", StrValue(prefix_template)),
      Item("credential_provider_name", StrValue(provider_template)),
      Item("provider_arn", StrValue(arn_template)),
      Item("gateway_name", StrValue(gateway_template)),
      Item("gateway_description", StrValue(gwdesc_template)),
      Item("target_description", StrValue(target_template))>>

empty_config == <<>>

\* number of item assignments made to a mapping before it is validated
MaxEdits == 2

InputValues ==
    [account_id |->
        {StrValue(s) : s \in {acct_short, acct_padded, acct_alpha, acct_long,
                              acct_blank, acct_superscript, ph_account, <<>>}}
        \cup {IntValue(<<1, 2, 3, 4, 5, 6, 7, 8, 9, 0, 1, 2>>), IntValue(<<0>>), NoneValue},
     region |->
        {StrValue(s) : s \in {region_underscore, region_space, region_dashes,
                              region_padded, ph_region, <<>>}}
        \cup {IntValue(<<1>>)},
     endpoint_url |->
        {StrValue(s) : s \in {url_http, url_padded, url_upper, <<>>}}
        \cup {IntValue(<<8, 0, 8, 0>>)},
     credential_provider_endpoint_url |->
        {StrValue(s) : s \in {url_http, <<>>}},
     user_pool_id |->
        {StrValue(s) : s \in {pool_nosep, pool_noprefix, pool_dot, ph_pool, <<>>}}
        \cup {IntValue(<<5>>)},
     client_id |-> {StrValue(s) : s \in {ph_client, <<>>}},
     role_name |-> {StrValue(s) : s \in {ph_region, <<>>}},
     gateway_name |-> {StrValue(<<>>)},
     credential_provider_name |-> {StrValue(<<>>)},
     s3_bucket |-> {StrValue(s) : s \in {ph_bucket, <<>>}} \cup {NoneValue}]

InputKeys == DOMAIN InputValues

\* the mappings validation starts from: the three above, and the fixture with
\* one key left out
InitialConfigs ==
    {sample_config_dict, config_template, empty_config}
    \cup {delitem(sample_config_dict, k) : k \in InputKeys}

(***************************************************************************)
(* models.py: SetupState (its configuration snapshot and timestamp play no *)
(* part in the step bookkeeping)                                           *)
(***************************************************************************)
SetupState(step) == [step |-> step, completed_steps |-> <<>>, failed_steps |-> <<>>]

\* x in l
in_list(x, l) == \E i \in DOMAIN l : l[i] = x

\* l.remove(x), for x in l: the first occurrence goes
remove(l, x) ==
    LET at == CHOOSE i \in DOMAIN l : l[i] = x /\ \A j \in 1..(i - 1) : l[j] /= x
    IN  SubSeq(l, 1, at - 1) \o SubSeq(l, at + 1, Len(l))

\* mark_step_completed without the removal from failed_steps
mark_step_completed_KeepsFailed(st, step) ==
    IF ~in_list(step, st.completed_steps)
    THEN [st EXCEPT !.completed_steps = Append(@, step)]
    ELSE st

mark_step_completed(st, step) ==
    LET st1 == IF ~in_list(step, st.completed_steps)
               THEN [st EXCEPT !.completed_steps = Append(@, step)]
               ELSE st
    IN  IF in_list(step, st1.failed_steps)
        THEN [st1 EXCEPT !.failed_steps = remove(@, step)]
        ELSE st1

mark_step_failed(st, step) ==
    IF ~in_list(step, st.failed_steps)
    THEN [st EXCEPT !.failed_steps = Append(@, step)]
    ELSE st

can_resume_from(st, step) == in_list(step, st.completed_steps) \/ step = st.step

(***************************************************************************)
(* models.py: SetupResult                                                  *)
(***************************************************************************)
SUCCESS == "success"
FAILED == "failed"
PARTIAL == "partial"

SetupError(component, error_type, message, suggestion, recoverable) ==
    [component |-> component, error_type |-> error_type, message |-> message,
     suggestion |-> suggestion, recoverable |-> recoverable]

SetupResult(success, status) ==
    [success |-> success, status |-> status, gateway_url |-> "None",
     provider_arn |-> "None", errors |-> <<>>, warnings |-> <<>>]

setup_add_error(r, component, error_type, message, suggestion, recoverable) ==
    [r EXCEPT !.errors = Append(@, SetupError(component, error_type, message,
                                              suggestion, recoverable)),
              !.success = FALSE,
              !.status = IF @ = SUCCESS
                         THEN (IF ~recoverable THEN FAILED ELSE PARTIAL)
                         ELSE @]

(***************************************************************************)
(* yaml.safe_load and yaml.dump, for documents that are empty, malformed   *)
(* or one block mapping of single-line scalars that are str, int or null.  *)
(* A scalar node has its text and its style: plain, or quoted.             *)
(***************************************************************************)
Plain(text) == [style |-> "plain", text |-> text]
Quoted(text) == [style |-> "quoted", text |-> text]

Entry(key, node) == [key |-> key, node |-> node]

MalformedDocument == [kind |-> "malformed"]
EmptyDocument == [kind |-> "empty"]
MappingDocument(entries) == [kind |-> "mapping", entries |-> entries]

\* what safe_load hands back for a mapping document
DictValue(items) == [type |-> "dict", items |-> items]

\* the plain texts the resolver takes for null
null_texts ==
    {<<>>, <<"~">>, <<"n","u","l","l">>, <<"N","u","l","l">>, <<"N","U","L","L">>}

OctalDigits == {"0", "1", "2", "3", "4", "5", "6", "7"}

\* the resolver's decimal int: 0, or digits that do not start with 0
is_decimal_int(text) ==
    /\ text /= <<>>
    /\ \A i \in DOMAIN text : text[i] \in AsciiDigits
    /\ (Len(text) = 1 \/ text[1] /= "0")

\* the resolver's octal int: 0 followed by octal digits
is_octal_int(text) ==
    /\ Len(text) > 1
    /\ text[1] = "0"
    /\ \A i \in DOMAIN text : text[i] \in OctalDigits

digit_of(c) == CHOOSE d \in 0..9 : DigitChars[d + 1] = c

\* the decimal digits of 8 * n + carry, for n given by its decimal digits
RECURSIVE times8_plus(_, _)
times8_plus(digits, carry) ==
    IF digits = <<>>
    THEN IF carry = 0 THEN <<>> ELSE <<carry>>
    ELSE LET n == Len(digits)
             t == 8 * digits[n] + carry
         IN  Append(times8_plus(SubSeq(digits, 1, n - 1), t \div 10), t % 10)

\* int(text, 8) as decimal digits, without the leading zeros
RECURSIVE int_base8(_)
int_base8(text) ==
    IF text = <<>>
    THEN <<>>
    ELSE LET n == Len(text)
         IN  times8_plus(int_base8(SubSeq(text, 1, n - 1)), digit_of(text[n]))

\* the value a scalar node is constructed as
resolve(node) ==
    IF node.style = "quoted"
    THEN StrValue(node.text)
    ELSE CASE node.text \in null_texts -> NoneValue
           [] is_decimal_int(node.text) ->
                  IntValue([i \in DOMAIN node.text |-> digit_of(node.text[i])])
           [] is_octal_int(node.text) ->
                  IntValue(IF int_base8(node.text) = <<>> THEN <<0>>
                           ELSE int_base8(node.text))
           [] OTHER -> StrValue(node.text)

\* a dict built from the entries in order: a repeated key keeps its first
\* place and its last value
RECURSIVE construct_mapping(_)
construct_mapping(entries) ==
    IF entries = <<>>
    THEN <<>>
    ELSE LET n == Len(entries)
         IN  setitem(construct_mapping(SubSeq(entries, 1, n - 1)),
                     entries[n].key, resolve(entries[n].node))

yaml_safe_load(document) ==
    CASE document.kind = "malformed" -> Raise("YAMLError")
      [] document.kind = "empty" -> Return(NoneValue)
      [] OTHER -> Return(DictValue(construct_mapping(document.entries)))

\* characters a plain scalar cannot start with
StartIndicators ==
    {"#", ",", "[", "]", "{", "}", "&", "*", "!", "|", ">", "'", "\"", "%", "@"}

\* s[i:i+2] == pair somewhere in s
contains_pair(s, pair) ==
    \E i \in 1..(Len(s) - 1) : s[i] = pair[1] /\ s[i + 1] = pair[2]

\* the emitter's analysis: may the text be written plain
plain_allowed(text) ==
    /\ text /= <<>>
    /\ strip(text) = text
    /\ text[1] \notin StartIndicators
    /\ ~(text[1] \in {"-", "?", ":"} /\ (Len(text) = 1 \/ text[2] = " "))
    /\ ~contains_pair(text, <<":", " ">>)
    /\ ~contains_pair(text, <<" ", "#">>)
    /\ text[Len(text)] /= ":"

\* the node a value is represented as: a str is written plain only when it
\* would be read back as the same str
represent(v) ==
    CASE v.type = "str" ->
             IF plain_allowed(v.chars) /\ resolve(Plain(v.chars)) = v
             THEN Plain(v.chars)
             ELSE Quoted(v.chars)
      [] v.type = "int" -> Plain(str(v))
      [] OTHER -> Plain(<<"n","u","l","l">>)

\* yaml.dump(config, default_flow_style=False, sort_keys=False)
yaml_dump(d) ==
    MappingDocument([i \in DOMAIN d |-> Entry(d[i].key, represent(d[i].value))])

(***************************************************************************)
(* Files: absent, or the comment lines and the document of a YAML file, or *)
(* the lines of a text file.                                               *)
(***************************************************************************)
NoFile == [kind |-> "absent"]
YamlFile(header, document) == [kind |-> "yaml", header |-> header, document |-> document]
TextFile(lines) == [kind |-> "text", lines |-> lines]
exists(file) == file /= NoFile

(***************************************************************************)
(* models.py: the typed configuration records                              *)
(***************************************************************************)
\* x.strip() raises AttributeError unless x is a str
is_str(v) == v.type = "str"

stripped(v) == StrValue(strip(v.chars))

\* AWSConfig(...) and its __post_init__
AWSConfig(account_id, region, role_name, endpoint_url, credential_provider_endpoint_url) ==
    IF ~is_str(account_id) \/ ~is_str(role_name)
    THEN Raise("AttributeError")
    ELSE Return([class |-> "AWSConfig",
                 account_id |-> stripped(account_id),
                 region |-> region,
                 role_name |-> stripped(role_name),
                 endpoint_url |-> endpoint_url,
                 credential_provider_endpoint_url |-> credential_provider_endpoint_url])

\* CredentialConfig(...) and its __post_init__
CredentialConfig(provider_name, api_key, region, endpoint_url) ==
    IF ~is_str(provider_name) \/ ~is_str(region)
    THEN Raise("AttributeError")
    ELSE Return([class |-> "CredentialConfig",
                 provider_name |-> stripped(provider_name),
                 api_key |-> api_key,
                 region |-> stripped(region),
                 endpoint_url |-> endpoint_url])

\* GatewayConfig(...) and its __post_init__
GatewayConfig(name, description, provider_arn) ==
    IF ~is_str(name)
    THEN Raise("AttributeError")
    ELSE Return([class |-> "GatewayConfig",
                 name |-> stripped(name),
                 description |-> description,
                 provider_arn |-> provider_arn])

(***************************************************************************)
(* ConfigurationManager: the configuration file                            *)
(***************************************************************************)
\* the list without role_name
stripped_keys_NoRoleName ==
    <<"account_id", "user_pool_id", "client_id", "s3_bucket",
      "credential_provider_name">>

\* the keys load_config strips
stripped_keys ==
    <<"account_id", "role_name", "user_pool_id", "client_id", "s3_bucket",
      "credential_provider_name">>

\* for key in keys: if key in config and isinstance(config[key], str): strip it
RECURSIVE strip_values(_, _)
strip_values(cfg, keys) ==
    IF keys = <<>>
    THEN cfg
    ELSE LET key == Head(keys)
             next == IF has_key(cfg, key) /\ is_str(getitem(cfg, key))
                     THEN setitem(cfg, key, stripped(getitem(cfg, key)))
                     ELSE cfg
         IN  strip_values(next, Tail(keys))

\* load_config() on the default path
load_config(file) ==
    IF ~exists(file)
    THEN Raise("FileNotFoundError")
    ELSE LET loaded == yaml_safe_load(file.document)
         IN  IF loaded.kind = "raise"
             THEN loaded
             ELSE IF loaded.value.type = "dict" /\ loaded.value.items /= <<>>
                  THEN Return(strip_values(loaded.value.items, stripped_keys))
                  ELSE Return(<<>>)

\* save_config(config): the file it leaves on the default path
save_config(cfg) == YamlFile(<<>>, yaml_dump(cfg))

\* update_config_parameter that starts from an empty mapping
update_config_parameter_Fresh(file, key, value) ==
    [reply |-> Return(NoneValue), file |-> save_config(setitem(<<>>, key, value))]

\* update_config_parameter(key, value): the outcome and the file afterwards
update_config_parameter(file, key, value) ==
    LET loaded == load_config(file)
    IN  IF loaded.kind = "raise" /\ loaded.exc /= "FileNotFoundError"
        THEN [reply |-> loaded, file |-> file]
        ELSE LET cfg == IF loaded.kind = "raise" THEN <<>> ELSE loaded.value
             IN  [reply |-> Return(NoneValue),
                  file |-> save_config(setitem(cfg, key, value))]

\* config.get(key, default)
get(cfg, key, default) == IF has_key(cfg, key) THEN getitem(cfg, key) ELSE default

\* the error get_aws_config raises for a configuration that is not valid
ValueError(errors) ==
    [kind |-> "raise", exc |-> "ValueError",
     message |-> F("Invalid AWS configuration: {'; '.join(error_messages)}",
                   [i \in DOMAIN errors |-> <<errors[i].field, errors[i].message>>])]

\* get_aws_config that builds the record without validating
get_aws_config_NoValidation(file) ==
    LET loaded == load_config(file)
    IN  IF loaded.kind = "raise"
        THEN loaded
        ELSE LET cfg == loaded.value
             IN  AWSConfig(get(cfg, "account_id", NoneValue),
                           get(cfg, "region", NoneValue),
                           get(cfg, "role_name", NoneValue),
                           get(cfg, "endpoint_url", NoneValue),
                           get(cfg, "credential_provider_endpoint_url", NoneValue))

get_aws_config(file) ==
    LET loaded == load_config(file)
    IN  IF loaded.kind = "raise"
        THEN loaded
        ELSE LET cfg == loaded.value
                 validation == validate_config(cfg)
             IN  IF validation.kind = "raise"
                 THEN validation
                 ELSE IF ~validation.value.is_valid
                      THEN ValueError(validation.value.errors)
                      ELSE AWSConfig(getitem(cfg, "account_id"),
                                     getitem(cfg, "region"),
                                     getitem(cfg, "role_name"),
                                     getitem(cfg, "endpoint_url"),
                                     getitem(cfg, "credential_provider_endpoint_url"))

get_credential_config(file, api_key) ==
    LET loaded == load_config(file)
    IN  IF loaded.kind = "raise"
        THEN loaded
        ELSE LET cfg == loaded.value
             IN  CredentialConfig(
                     get(cfg, "credential_provider_name", StrValue(provider_template)),
                     api_key,
                     get(cfg, "region", StrValue(region_ok)),
                     get(cfg, "credential_provider_endpoint_url", StrValue(url_provider)))

get_gateway_config(file) ==
    LET loaded == load_config(file)
    IN  IF loaded.kind = "raise"
        THEN loaded
        ELSE LET cfg == loaded.value
             IN  GatewayConfig(
                     get(cfg, "gateway_name", StrValue(gateway_template)),
                     get(cfg, "gateway_description", StrValue(gwdesc_template)),
                     get(cfg, "provider_arn", NoneValue))

\* 'BACKEND_API_KEY'
BACKEND_API_KEY ==
    <<"B","A","C","K","E","N","D","_","A","P","I","_","K","E","Y">>

\* the text of .env.example, line by line, each with its line end
env_template ==
    <<<<"#"," ","E","n","v","i","r","o","n","m","e","n","t"," ","V","a","r","i","a","b","l","e","s"," ","f","o","r"," ","S","R","E"," ","A","g","e","n","t"," ","G","a","t","e","w","a","y"," ","S","e","t","u","p","\n">>,
      <<"#"," ","C","o","p","y"," ","t","h","i","s"," ","f","i","l","e"," ","t","o"," ",".","e","n","v"," ","a","n","d"," ","f","i","l","l"," ","i","n"," ","y","o","u","r"," ","a","c","t","u","a","l"," ","v","a","l","u","e","s","\n">>,
      <<"\n">>,
      <<"#"," ","C","o","g","n","i","t","o"," ","C","o","n","f","i","g","u","r","a","t","i","o","n"," ","f","o","r"," ","T","o","k","e","n"," ","G","e","n","e","r","a","t","i","o","n","\n">>,
      <<"C","O","G","N","I","T","O","_","D","O","M","A","I","N","=","h","t","t","p","s",":","/","/","y","o","u","r","d","o","m","a","i","n",".","a","u","t","h",".","u","s","-","w","e","s","t","-","2",".","a","m","a","z","o","n","c","o","g","n","i","t","o",".","c","o","m","\n">>,
      <<"C","O","G","N","I","T","O","_","C","L","I","E","N","T","_","I","D","=","y","o","u","r","-","c","l","i","e","n","t","-","i","d","-","h","e","r","e","\n">>,
      <<"C","O","G","N","I","T","O","_","C","L","I","E","N","T","_","S","E","C","R","E","T","=","y","o","u","r","-","c","l","i","e","n","t","-","s","e","c","r","e","t","-","h","e","r","e","\n">>,
      <<"C","O","G","N","I","T","O","_","U","S","E","R","_","P","O","O","L","_","I","D","=","y","o","u","r","-","u","s","e","r","-","p","o","o","l","-","i","d","-","h","e","r","e","\n">>,
      <<"\n">>,
      <<"#"," ","B","a","c","k","e","n","d"," ","A","P","I"," ","K","e","y"," ","f","o","r"," ","c","r","e","d","e","n","t","i","a","l"," ","p","r","o","v","i","d","e","r","\n">>,
      <<"B","A","C","K","E","N","D","_","A","P","I","_","K","E","Y","=","y","o","u","r","-","b","a","c","k","e","n","d","-","a","p","i","-","k","e","y","-","h","e","r","e","\n">>,
      <<"\n">>,
      <<"#"," ","A","n","t","h","r","o","p","i","c"," ","A","P","I"," ","C","r","e","d","e","n","t","i","a","l","s"," ","(","o","p","t","i","o","n","a","l"," ","-"," ","f","o","r"," ","A","n","t","h","r","o","p","i","c"," ","m","o","d","e","l","s",")","\n">>,
      <<"A","N","T","H","R","O","P","I","C","_","A","P","I","_","K","E","Y","=","y","o","u","r","-","a","n","t","h","r","o","p","i","c","-","a","p","i","-","k","e","y","-","h","e","r","e","\n">>>>

\* create_template_files that writes both files whether they exist or not
create_template_files_Overwrite(config_file, env_file) ==
    [config_yaml |->
         YamlFile(<<"# AgentCore Gateway Configuration",
                    "# Replace placeholder values with your actual configuration">>,
                  yaml_dump(config_template)),
     env_example |-> TextFile(env_template)]

\* create_template_files(): config.yaml and .env.example afterwards
create_template_files(config_file, env_file) ==
    [config_yaml |->
         IF ~exists(config_file)
         THEN YamlFile(<<"# AgentCore Gateway Configuration",
                         "# Replace placeholder values with your actual configuration">>,
                       yaml_dump(config_template))
         ELSE config_file,
     env_example |->
         IF ~exists(env_file) THEN TextFile(env_template) ELSE env_file]

(***************************************************************************)
(* ConfigurationManager: environment variables.  An environment is a dict  *)
(* from names to texts.                                                    *)
(***************************************************************************)
\* the split at the last sep instead of the first
split_once_AtLast(s, sep) ==
    LET at == CHOOSE i \in DOMAIN s : s[i] = sep /\ \A j \in (i + 1)..Len(s) : s[j] /= sep
    IN  <<SubSeq(s, 1, at - 1), SubSeq(s, at + 1, Len(s))>>

\* s.split(sep, 1) for a one-character sep that occurs in s
split_once(s, sep) ==
    LET at == CHOOSE i \in DOMAIN s : s[i] = sep /\ \A j \in 1..(i - 1) : s[j] /= sep
    IN  <<SubSeq(s, 1, at - 1), SubSeq(s, at + 1, Len(s))>>

\* the loop over the lines of the .env file
RECURSIVE parse_env_lines(_)
parse_env_lines(lines) ==
    IF lines = <<>>
    THEN <<>>
    ELSE LET n == Len(lines)
             env_vars == parse_env_lines(SubSeq(lines, 1, n - 1))
             line == strip(lines[n])
         IN  IF line /= <<>> /\ ~startswith(line, <<"#">>) /\ contains(line, "=")
             THEN LET key_value == split_once(line, "=")
                  IN  setitem(env_vars, strip(key_value[1]), strip(key_value[2]))
             ELSE env_vars

load_environment_variables(file) ==
    IF exists(file) THEN parse_env_lines(file.lines) ELSE <<>>

\* an update that keeps the value of a key the mapping already has
RECURSIVE update_KeepExisting(_, _)
update_KeepExisting(d, other) ==
    IF other = <<>>
    THEN d
    ELSE update_KeepExisting(IF has_key(d, Head(other).key)
                             THEN d
                             ELSE setitem(d, Head(other).key, Head(other).value),
                             Tail(other))

\* d.update(other)
RECURSIVE update(_, _)
update(d, other) ==
    IF other = <<>>
    THEN d
    ELSE update(setitem(d, Head(other).key, Head(other).value), Tail(other))

\* the loop that reports a name only when it is not defined at all
RECURSIVE check_required_vars_MissingOnly(_, _, _)
check_required_vars_MissingOnly(r, env_vars, required_vars) ==
    IF required_vars = <<>>
    THEN r
    ELSE LET var == Head(required_vars)
             r1 == IF ~has_key(env_vars, var)
                   THEN add_error(r, Join(var),
                            F("Required environment variable '{var}' is not set", <<Join(var)>>),
                            F("Set {var} in your .env file or environment", <<Join(var)>>))
                   ELSE r
         IN  check_required_vars_MissingOnly(r1, env_vars, Tail(required_vars))

\* the loop over required_vars
RECURSIVE check_required_vars(_, _, _)
check_required_vars(r, env_vars, required_vars) ==
    IF required_vars = <<>>
    THEN r
    ELSE LET var == Head(required_vars)
             r1 == IF ~has_key(env_vars, var) \/ getitem(env_vars, var) = <<>>
                   THEN add_error(r, Join(var),
                            F("Required environment variable '{var}' is not set", <<Join(var)>>),
                            F("Set {var} in your .env file or environment", <<Join(var)>>))
                   ELSE r
         IN  check_required_vars(r1, env_vars, Tail(required_vars))

validate_environment_variables(os_environ, file, required_vars) ==
    check_required_vars(ValidationResult(TRUE, VALID),
                        update(os_environ, load_environment_variables(file)),
                        required_vars)

NoReply == [op |-> "none"]

\* no file written, no manager call made
InitManagerIdle ==
    /\ config_yaml = NoFile
    /\ env_example = NoFile
    /\ dot_env = NoFile
    /\ environ = <<>>
    /\ reply = NoReply
    /\ updates = 0

(***************************************************************************)
(* validate_setup.py                                                       *)
(***************************************************************************)
\* 'YOUR_ROLE_NAME'
ph_role ==
    <<"Y","O","U","R","_","R","O","L","E","_","N","A","M","E">>

\* 'aws-cli/2.15.30 Python/3.11.8 Linux/6.1 exe/x86_64\n'
aws_version_text ==
    <<"a","w","s","-","c","l","i","/","2",".","1","5",".","3","0"," ","P","y",
      "t","h","o","n","/","3",".","1","1",".","8"," ","L","i","n","u","x","/",
      "6",".","1"," ","e","x","e","/","x","8","6","_","6","4","\n">>

\* 'uv 0.4.18\n'
uv_version_text ==
    <<"u","v"," ","0",".","4",".","1","8","\n">>

\* '{"UserId": "AIDAEXAMPLE", "Account": "123456789012", "Arn": "arn:aws:iam::123456789012:user/dev"}\n'
identity_json ==
    <<"{","\"","U","s","e","r","I","d","\"",":"," ","\"","A","I","D","A","E",
      "X","A","M","P","L","E","\"",","," ","\"","A","c","c","o","u","n","t",
      "\"",":"," ","\"","1","2","3","4","5","6","7","8","9","0","1","2","\"",
      ","," ","\"","A","r","n","\"",":"," ","\"","a","r","n",":","a","w","s",
      ":","i","a","m",":",":","1","2","3","4","5","6","7","8","9","0","1","2",
      ":","u","s","e","r","/","d","e","v","\"","}","\n">>

\* '123456789012\tarn:aws:iam::123456789012:user/dev\tAIDAEXAMPLE\n'
identity_text ==
    <<"1","2","3","4","5","6","7","8","9","0","1","2","	","a","r","n",":","a",
      "w","s",":","i","a","m",":",":","1","2","3","4","5","6","7","8","9","0",
      "1","2",":","u","s","e","r","/","d","e","v","	","A","I","D","A","E","X",
      "A","M","P","L","E","\n">>

\* '2024-01-01 00:00:00 test-bucket\n'
buckets_text ==
    <<"2","0","2","4","-","0","1","-","0","1"," ","0","0",":","0","0",":","0",
      "0"," ","t","e","s","t","-","b","u","c","k","e","t","\n">>

\* 'tcp 0 0 0.0.0.0:22 0.0.0.0:* LISTEN 612/sshd\ntcp 0 0 127.0.0.1:80110 0.0.0.0:* LISTEN 7/app\n'
netstat_free ==
    <<"t","c","p"," ","0"," ","0"," ","0",".","0",".","0",".","0",":","2","2",
      " ","0",".","0",".","0",".","0",":","*"," ","L","I","S","T","E","N"," ",
      "6","1","2","/","s","s","h","d","\n","t","c","p"," ","0"," ","0"," ",
      "1","2","7",".","0",".","0",".","1",":","8","0","1","1","0"," ","0",".",
      "0",".","0",".","0",":","*"," ","L","I","S","T","E","N"," ","7","/","a",
      "p","p","\n">>

\* 'tcp 0 0 0.0.0.0:22 0.0.0.0:* LISTEN 612/sshd\ntcp 0 0 0.0.0.0:8012 0.0.0.0:* LISTEN 9/python\n'
netstat_used ==
    <<"t","c","p"," ","0"," ","0"," ","0",".","0",".","0",".","0",":","2","2",
      " ","0",".","0",".","0",".","0",":","*"," ","L","I","S","T","E","N"," ",
      "6","1","2","/","s","s","h","d","\n","t","c","p"," ","0"," ","0"," ",
      "0",".","0",".","0",".","0",":","8","0","1","2"," ","0",".","0",".","0",
      ".","0",":","*"," ","L","I","S","T","E","N"," ","9","/","p","y","t","h",
      "o","n","\n">>

\* the text generate_fix_script writes, line by line, without its pictographs
fix_script_text ==
    <<"#!/bin/bash",
      "# Auto-generated fix script for SRE Agent setup issues",
      "",
      "echo \"Fixing SRE Agent setup issues...\"",
      "",
      "# Fix 1: Install missing prerequisites",
      "if ! command -v aws &> /dev/null; then",
      "    echo \"Installing AWS CLI...\"",
      "    curl \"https://awscli.amazonaws.com/awscli-exe-linux-x86_64.zip\" -o \"awscliv2.zip\"",
      "    unzip awscliv2.zip",
      "    sudo ./aws/install",
      "    rm -rf aws awscliv2.zip",
      "fi",
      "",
      "if ! command -v uv &> /dev/null; then",
      "    echo \"Installing uv package manager...\"",
      "    curl -LsSf https://astral.sh/uv/install.sh | sh",
      "    source ~/.bashrc",
      "fi",
      "",
      "# Fix 2: Create configuration templates",
      "if [ ! -f \"gateway/config.yaml\" ]; then",
      "    echo \"Creating config.yaml template...\"",
      "    cp gateway/config.yaml.example gateway/config.yaml",
      "    echo \"Please edit gateway/config.yaml with your values\"",
      "fi",
      "",
      "if [ ! -f \"gateway/.env\" ]; then",
      "    echo \"Creating .env template...\"",
      "    cp gateway/.env.example gateway/.env",
      "    echo \"Please edit gateway/.env with your values\"",
      "fi",
      "",
      "# Fix 3: Create self-signed SSL certificates (for testing)",
      "if [ ! -f \"/opt/ssl/privkey.pem\" ]; then",
      "    echo \"Creating self-signed SSL certificates...\"",
      "    sudo mkdir -p /opt/ssl",
      "    sudo openssl req -x509 -newkey rsa:4096 -keyout /opt/ssl/privkey.pem -out /opt/ssl/fullchain.pem -days 365 -nodes -subj \"/C=US/ST=State/L=City/O=Organization/CN=localhost\"",
      "    echo \"Self-signed certificates created (for testing only)\"",
      "fi",
      "",
      "# Fix 4: Configure AWS credentials (interactive)",
      "if ! aws sts get-caller-identity &> /dev/null; then",
      "    echo \"AWS credentials not configured. Please run:\"",
      "    echo \"  aws configure\"",
      "    echo \"Or attach an IAM role to your EC2 instance\"",
      "fi",
      "",
      "echo \"Fix script completed!\"",
      "echo \"Next steps:\"",
      "echo \"1. Edit gateway/config.yaml with your AWS account details\"",
      "echo \"2. Edit gateway/.env with your API keys\"",
      "echo \"3. Run: ./gateway/setup_production.sh\"">>

\* what subprocess.run(cmd, timeout=30) does
Completed(returncode, out) == [kind |-> "completed", returncode |-> returncode, stdout |-> out]
TimeoutExpired == [kind |-> "timeout"]
CommandNotFound == [kind |-> "not_found"]

\* str(e) of the two exceptions run_command catches
exception_text(kind) ==
    IF kind = "timeout"
    THEN <<"t","i","m","e","d"," ","o","u","t">>
    ELSE <<"N","o"," ","s","u","c","h"," ","f","i","l","e">>

\* run_command(cmd), given what subprocess.run did
run_command(ran) ==
    IF ran.kind = "completed"
    THEN [success |-> ran.returncode = 0, output |-> strip(ran.stdout)]
    ELSE [success |-> FALSE, output |-> exception_text(ran.kind)]

\* the record of one subprocess.run
Ran(cmd, ran) == [cmd |-> cmd, kind |-> ran.kind]

\* what a check did: its outcome and the commands it ran, in order
Checked(check_outcome, ran_commands) == [outcome |-> check_outcome, commands |-> ran_commands]

\* version.major >= 3 and version.minor >= 12
version_ok(version) == version[1] >= 3 /\ version[2] >= 12

\* output.split()[0] raises IndexError when the output has no word
no_word(output) == strip(output) = <<>>

check_prerequisites(version, aws, uv) ==
    IF run_command(aws).success /\ no_word(run_command(aws).output)
    THEN Checked(Raise("IndexError"), <<Ran("aws --version", aws)>>)
    ELSE Checked(Return(/\ version_ok(version)
                        /\ run_command(aws).success
                        /\ run_command(uv).success),
                 <<Ran("aws --version", aws), Ran("uv --version", uv)>>)

\* json.loads(output): a JSON object, or a text that is not JSON
json_loads(output) ==
    IF output /= <<>> /\ output[1] = "{" /\ output[Len(output)] = "}"
    THEN Return([type |-> "dict"])
    ELSE Raise("JSONDecodeError")

check_aws_credentials(sts, s3) ==
    IF ~run_command(sts).success
    THEN Checked(Return(FALSE), <<Ran("aws sts get-caller-identity", sts)>>)
    ELSE IF json_loads(run_command(sts).output).kind = "raise"
         THEN Checked(Return(FALSE), <<Ran("aws sts get-caller-identity", sts)>>)
         ELSE Checked(Return(TRUE),
                      <<Ran("aws sts get-caller-identity", sts), Ran("aws s3 ls", s3)>>)

\* the placeholders of check_configuration
script_placeholders == <<ph_account, ph_region, ph_role, ph_pool, ph_client>>

\* the items check_configuration lists as placeholders
found_placeholders(cfg) ==
    SelectSeq(cfg, LAMBDA item :
                       is_str(item.value) /\ in_list(item.value.chars, script_placeholders))

\* the names of required_vars that .env does not set
missing_vars(env_vars, required_vars) ==
    SelectSeq(required_vars,
              LAMBDA var : ~has_key(env_vars, var) \/ getitem(env_vars, var) = <<>>)

\* the config.yaml half of check_configuration: all_good after it, or the
\* AttributeError of config.items() on a document that is not a mapping
check_config_yaml(config_file) ==
    IF ~exists(config_file)
    THEN Return(FALSE)
    ELSE LET loaded == yaml_safe_load(config_file.document)
         IN  IF loaded.kind = "raise"
             THEN Return(FALSE)
             ELSE IF loaded.value.type /= "dict"
                  THEN Raise("AttributeError")
                  ELSE Return(found_placeholders(loaded.value.items) = <<>>)

\* the .env half of check_configuration
check_dot_env(env_file) ==
    IF ~exists(env_file)
    THEN TRUE
    ELSE missing_vars(parse_env_lines(env_file.lines), <<BACKEND_API_KEY>>) = <<>>

check_configuration(config_file, env_file) ==
    IF check_config_yaml(config_file).kind = "raise"
    THEN Checked(check_config_yaml(config_file), <<>>)
    ELSE Checked(Return(check_config_yaml(config_file).value /\ check_dot_env(env_file)),
                 <<>>)

cert_paths == <<"/opt/ssl/privkey.pem", "/opt/ssl/fullchain.pem">>

check_ssl_certificates(existing) ==
    Checked(Return(\A i \in DOMAIN cert_paths : cert_paths[i] \in existing), <<>>)

required_ports == <<8011, 8012, 8013, 8014>>

\* str(n) for a natural number
RECURSIVE decimal(_)
decimal(n) ==
    IF n < 10 THEN <<DigitChars[n + 1]>> ELSE Append(decimal(n \div 10), DigitChars[(n % 10) + 1])

\* sub in s
contains_text(s, sub) ==
    \E i \in 1..(Len(s) - Len(sub) + 1) : SubSeq(s, i, i + Len(sub) - 1) = sub

\* s.split('\n')
RECURSIVE split_lines(_)
split_lines(s) ==
    IF ~contains(s, "\n")
    THEN <<s>>
    ELSE <<split_once(s, "\n")[1]>> \o split_lines(split_once(s, "\n")[2])

\* the ports appended for one line
RECURSIVE ports_in_line(_, _)
ports_in_line(line, ports) ==
    IF ports = <<>>
    THEN <<>>
    ELSE (IF contains_text(line, <<":">> \o decimal(Head(ports)) \o <<" ">>)
          THEN <<Head(ports)>>
          ELSE <<>>) \o ports_in_line(line, Tail(ports))

\* used_ports after the loop over the lines
RECURSIVE used_ports(_)
used_ports(lines) ==
    IF lines = <<>>
    THEN <<>>
    ELSE ports_in_line(Head(lines), required_ports) \o used_ports(Tail(lines))

\* a port check that fails when netstat could not be run
check_ports_TimeoutFails(netstat) ==
    IF ~run_command(netstat).success
    THEN Checked(Return(FALSE), <<Ran("netstat -tlnp", netstat)>>)
    ELSE Checked(Return(used_ports(split_lines(run_command(netstat).output)) = <<>>),
                 <<Ran("netstat -tlnp", netstat)>>)

\* check_ports(), given what netstat -tlnp did
check_ports(netstat) ==
    IF ~run_command(netstat).success
    THEN Checked(Return(TRUE), <<Ran("netstat -tlnp", netstat)>>)
    ELSE Checked(Return(used_ports(split_lines(run_command(netstat).output)) = <<>>),
                 <<Ran("netstat -tlnp", netstat)>>)

\* the loop that records a check that raised as passed
record_result_RaiseIsPass(check_results, name, checked) ==
    Append(check_results,
           <<name, IF checked.outcome.kind = "return" THEN checked.outcome.value ELSE TRUE>>)

\* results.append((name, result)), or (name, False) for a check that raised
record_result(check_results, name, checked) ==
    Append(check_results,
           <<name, IF checked.outcome.kind = "return" THEN checked.outcome.value ELSE FALSE>>)

\* a fix script left without the executable mode
generate_fix_script_NotExecutable ==
    [kind |-> "script", lines |-> fix_script_text, mode |-> "0o644"]

\* fix_setup.sh as generate_fix_script leaves it
generate_fix_script == [kind |-> "script", lines |-> fix_script_text, mode |-> "0o755"]

\* the checks of main, in order
checks ==
    <<"Prerequisites", "AWS Credentials", "Configuration", "SSL Certificates",
      "Port Availability">>

\* the first line each check prints
headers ==
    <<F("Checking Prerequisites", <<>>), F("Checking AWS Credentials", <<>>),
      F("Checking Configuration Files", <<>>), F("Checking SSL Certificates", <<>>),
      F("Checking Port Availability", <<>>)>>

\* sum(1 for _, result in results if result)
passed(check_results) ==
    Cardinality({i \in DOMAIN check_results : check_results[i][2]})

\* the lines of the summary
summary(check_results) ==
    <<F("Validation Summary", <<>>)>>
    \o [i \in DOMAIN check_results |->
            F("{name}: {'PASS' if result else 'FAIL'}",
              <<check_results[i][1], IF check_results[i][2] THEN "PASS" ELSE "FAIL">>)]
    \o <<F("Overall: {passed}/{total} checks passed",
           <<Join(decimal(passed(check_results))), Join(decimal(Len(check_results)))>>)>>
    \o (IF passed(check_results) = Len(check_results)
        THEN <<F("All checks passed! Ready to run production setup.", <<>>)>>
        ELSE <<F("Some checks failed. Generating fix script...", <<>>),
               F("Generated fix_setup.sh script", <<>>)>>)

NoHost == [kind |-> "none"]

\* the script has not been started
InitScriptIdle ==
    /\ host = NoHost
    /\ pc = [at |-> "idle"]
    /\ results = <<>>
    /\ stdout = <<>>
    /\ commands = <<>>
    /\ fix_script = NoFile
    /\ exit_code = [kind |-> "none"]

(***************************************************************************)
(* The calls                                                               *)
(***************************************************************************)
\* longest error list and warning list the objects are driven to
MaxErrors == 3
MaxWarnings == 2

Steps == {"load_config", "create_provider", "create_gateway"}
Fields == {"account_id", "region"}
Messages == {F("Required AWS parameter '{param}' is missing or empty", <<"region">>),
             F("Endpoint URLs must use HTTPS", <<>>)}
Components == {"gateway", "credential_provider"}
ErrorTypes == {"AccessDenied", "Timeout"}

NoCall == [op |-> "none"]

InitObjects ==
    /\ result = ValidationResult(TRUE, VALID)
    /\ state = SetupState("load_config")
    /\ setup = SetupResult(TRUE, SUCCESS)
    /\ last = NoCall

\* validate_config(config) on an input mapping
Validate ==
    /\ outcome = NotCalled
    /\ outcome' = validate_config(config)
    /\ UNCHANGED <<config, edits, result, state, setup, last, ioVars>>

\* config[key] = value, before the call
SetItem(key, value) ==
    /\ outcome = NotCalled
    /\ edits < MaxEdits
    /\ config' = setitem(config, key, value)
    /\ edits' = edits + 1
    /\ UNCHANGED <<outcome, result, state, setup, last, ioVars>>

InitValidate ==
    /\ config \in InitialConfigs
    /\ edits = 0
    /\ outcome = NotCalled
    /\ InitObjects
    /\ InitManagerIdle
    /\ InitScriptIdle

NextValidate ==
    \/ \E key \in InputKeys : \E value \in InputValues[key] : SetItem(key, value)
    \/ Validate

SpecValidate == InitValidate /\ [][NextValidate]_vars

\* result.add_error(field, message, suggestion)
AddError(field, message, suggestion) ==
    /\ Len(result.errors) < MaxErrors
    /\ result' = add_error(result, field, message, suggestion)
    /\ last' = [op |-> "add_error", field |-> field]
    /\ UNCHANGED <<config, edits, outcome, state, setup, ioVars>>

\* result.add_warning(message)
AddWarning(message) ==
    /\ Len(result.warnings) < MaxWarnings
    /\ result' = add_warning(result, message)
    /\ last' = [op |-> "add_warning"]
    /\ UNCHANGED <<config, edits, outcome, state, setup, ioVars>>

\* no mapping under validation, the records as constructed
InitRecordsIdle ==
    /\ config = empty_config
    /\ edits = 0
    /\ outcome = NotCalled
    /\ InitObjects

InitIdle ==
    /\ InitRecordsIdle
    /\ InitManagerIdle
    /\ InitScriptIdle

NextResult ==
    \/ \E field \in Fields, message \in Messages, suggestion \in Messages :
           AddError(field, message, suggestion)
    \/ \E message \in Messages : AddWarning(message)

SpecResult == InitIdle /\ [][NextResult]_vars

\* state.mark_step_completed(step)
MarkStepCompleted(step) ==
    /\ state' = mark_step_completed(state, step)
    /\ last' = [op |-> "mark_step_completed", step |-> step]
    /\ UNCHANGED <<config, edits, outcome, result, setup, ioVars>>

\* state.mark_step_failed(step)
MarkStepFailed(step) ==
    /\ state' = mark_step_failed(state, step)
    /\ last' = [op |-> "mark_step_failed", step |-> step]
    /\ UNCHANGED <<config, edits, outcome, result, setup, ioVars>>

InitState ==
    /\ config = empty_config
    /\ edits = 0
    /\ outcome = NotCalled
    /\ result = ValidationResult(TRUE, VALID)
    /\ state \in {SetupState(step) : step \in Steps}
    /\ setup = SetupResult(TRUE, SUCCESS)
    /\ last = NoCall
    /\ InitManagerIdle
    /\ InitScriptIdle

NextState ==
    \/ \E step \in Steps : MarkStepCompleted(step)
    \/ \E step \in Steps : MarkStepFailed(step)

SpecState == InitState /\ [][NextState]_vars

\* setup.add_error(component, error_type, message, suggestion, recoverable)
SetupAddError(component, error_type, message, recoverable) ==
    /\ Len(setup.errors) < MaxErrors
    /\ setup' = setup_add_error(setup, component, error_type, message, "None", recoverable)
    /\ last' = [op |-> "add_error", recoverable |-> recoverable]
    /\ UNCHANGED <<config, edits, outcome, result, state, ioVars>>

NextSetup ==
    \E component \in Components, error_type \in ErrorTypes, recoverable \in BOOLEAN :
        SetupAddError(component, error_type, "setup step failed", recoverable)

SpecSetup == InitIdle /\ [][NextSetup]_vars

(***************************************************************************)
(* The calls on a ConfigurationManager over its configuration directory    *)
(***************************************************************************)
\* ' test-role '
role_padded ==
    <<" ","t","e","s","t","-","r","o","l","e"," ">>

\* ' test-gateway '
gateway_padded ==
    <<" ","t","e","s","t","-","g","a","t","e","w","a","y"," ">>

\* 'null'
null_text ==
    <<"n","u","l","l">>

\* 'test-backend-api-key'
api_key_test ==
    <<"t","e","s","t","-","b","a","c","k","e","n","d","-","a","p","i","-","k","e","y">>

\* '012345670123'
acct_octal ==
    <<"0","1","2","3","4","5","6","7","0","1","2","3">>

\* the document with the node of one key rewritten by hand
edit_entry(document, key, node) ==
    MappingDocument([i \in DOMAIN document.entries |->
                        IF document.entries[i].key = key
                        THEN Entry(key, node)
                        ELSE document.entries[i]])

\* the fixture mapping as save_config writes it
sample_document == yaml_dump(sample_config_dict)

\* the fixture edited by hand: an unquoted account id, a short one, padded
\* names, an account id of non-ASCII digits, a region left blank
HandWritten ==
    {edit_entry(sample_document, "account_id", Plain(acct_ok)),
     edit_entry(sample_document, "account_id", Plain(acct_short)),
     edit_entry(edit_entry(sample_document, "role_name", Quoted(role_padded)),
                "gateway_name", Quoted(gateway_padded)),
     edit_entry(sample_document, "account_id", Quoted(acct_superscript)),
     edit_entry(sample_document, "region", Plain(<<>>))}

InitialConfigFiles ==
    {NoFile,
     YamlFile(<<>>, EmptyDocument),
     YamlFile(<<>>, MalformedDocument),
     YamlFile(<<>>, MappingDocument(<<>>)),
     YamlFile(<<>>, sample_document)}
    \cup {YamlFile(<<"# edited by hand">>, document) : document \in HandWritten}

InitialEnvExamples ==
    {NoFile, TextFile(env_template), TextFile(<<BACKEND_API_KEY \o <<"=", "k", "\n">> >>)}

\* number of update_config_parameter calls in a run
MaxUpdates == 2

UpdateInputs ==
    {<<"role_name", StrValue(role_padded)>>,
     <<"account_id", StrValue(acct_ok)>>,
     <<"gateway_name", StrValue(gateway_padded)>>,
     <<"s3_bucket", StrValue(<<>>)>>,
     <<"region", StrValue(null_text)>>,
     <<"extra", StrValue(acct_octal)>>}

AccountIdInputs ==
    {StrValue(acct_ok), StrValue(acct_padded), StrValue(acct_short),
     StrValue(acct_superscript), IntValue(<<1, 2, 3, 4, 5, 6, 7, 8, 9, 0, 1, 2>>)}

RoleNameInputs == {StrValue(role_test), StrValue(role_padded)}

\* manager.load_config()
LoadConfig ==
    /\ reply' = [op |-> "load_config", outcome |-> load_config(config_yaml)]
    /\ UNCHANGED <<config_yaml, env_example, dot_env, environ, updates, recordVars, scriptVars>>

\* manager.get_aws_config()
GetAwsConfig ==
    /\ reply' = [op |-> "get_aws_config", outcome |-> get_aws_config(config_yaml)]
    /\ UNCHANGED <<config_yaml, env_example, dot_env, environ, updates, recordVars, scriptVars>>

\* manager.get_credential_config(api_key)
GetCredentialConfig(api_key) ==
    /\ reply' = [op |-> "get_credential_config",
                 outcome |-> get_credential_config(config_yaml, api_key)]
    /\ UNCHANGED <<config_yaml, env_example, dot_env, environ, updates, recordVars, scriptVars>>

\* manager.get_gateway_config()
GetGatewayConfig ==
    /\ reply' = [op |-> "get_gateway_config", outcome |-> get_gateway_config(config_yaml)]
    /\ UNCHANGED <<config_yaml, env_example, dot_env, environ, updates, recordVars, scriptVars>>

\* AWSConfig(account_id=..., role_name=..., ...) built directly
NewAWSConfig(account_id, role_name) ==
    /\ reply' = [op |-> "AWSConfig",
                 outcome |-> AWSConfig(account_id, StrValue(region_ok), role_name,
                                       StrValue(url_gateway), StrValue(url_provider))]
    /\ UNCHANGED <<config_yaml, env_example, dot_env, environ, updates, recordVars, scriptVars>>

\* manager.create_template_files()
CreateTemplateFiles ==
    LET written == create_template_files(config_yaml, env_example)
    IN  /\ config_yaml' = written.config_yaml
        /\ env_example' = written.env_example
        /\ reply' = [op |-> "create_template_files", outcome |-> Return(NoneValue)]
        /\ UNCHANGED <<dot_env, environ, updates, recordVars, scriptVars>>

\* manager.update_config_parameter(key, value)
UpdateConfigParameter(key, value) ==
    LET updated == update_config_parameter(config_yaml, key, value)
    IN  /\ updates < MaxUpdates
        /\ config_yaml' = updated.file
        /\ reply' = [op |-> "update_config_parameter", key |-> key, value |-> value,
                     outcome |-> updated.reply]
        /\ updates' = updates + 1
        /\ UNCHANGED <<env_example, dot_env, environ, recordVars, scriptVars>>

InitConfigFile ==
    /\ InitRecordsIdle
    /\ InitScriptIdle
    /\ config_yaml \in InitialConfigFiles
    /\ env_example \in InitialEnvExamples
    /\ dot_env = NoFile
    /\ environ = <<>>
    /\ reply = NoReply
    /\ updates = 0

NextConfigFile ==
    \/ LoadConfig
    \/ GetAwsConfig
    \/ GetCredentialConfig(StrValue(api_key_test))
    \/ GetGatewayConfig
    \/ \E account_id \in AccountIdInputs, role_name \in RoleNameInputs :
           NewAWSConfig(account_id, role_name)
    \/ CreateTemplateFiles
    \/ \E input \in UpdateInputs : UpdateConfigParameter(input[1], input[2])

SpecConfigFile == InitConfigFile /\ [][NextConfigFile]_vars

(***************************************************************************)
(* The calls on a ConfigurationManager over its .env file and os.environ   *)
(***************************************************************************)
\* '# comment\n'
env_line_comment ==
    <<"#"," ","c","o","m","m","e","n","t","\n">>

\* '\n'
env_line_blank ==
    <<"\n">>

\* 'KEY = value\n'
env_line_spaced ==
    <<"K","E","Y"," ","="," ","v","a","l","u","e","\n">>

\* 'BACKEND_API_KEY=secret\n'
env_line_api_key ==
    <<"B","A","C","K","E","N","D","_","A","P","I","_","K","E","Y","=","s","e","c","r","e","t","\n">>

\* 'BACKEND_API_KEY=\n'
env_line_api_key_empty ==
    <<"B","A","C","K","E","N","D","_","A","P","I","_","K","E","Y","=","\n">>

\* '  # KEY=hidden\n'
env_line_indented_comment ==
    <<" "," ","#"," ","K","E","Y","=","h","i","d","d","e","n","\n">>

\* 'KEY=a=b'
env_line_two_equals ==
    <<"K","E","Y","=","a","=","b">>

\* 'export KEY\n'
env_line_no_equals ==
    <<"e","x","p","o","r","t"," ","K","E","Y","\n">>

\* 'KEY'
KEY ==
    <<"K","E","Y">>

\* 'os-secret'
os_secret ==
    <<"o","s","-","s","e","c","r","e","t">>

\* number of lines the .env file grows to
MaxLines == 3

EnvLines ==
    {env_line_comment, env_line_blank, env_line_spaced, env_line_api_key,
     env_line_api_key_empty, env_line_indented_comment, env_line_two_equals,
     env_line_no_equals}

\* os.environ when the manager is used
InitialEnvirons ==
    {<<>>,
     <<Item(BACKEND_API_KEY, os_secret)>>,
     <<Item(BACKEND_API_KEY, <<>>), Item(KEY, os_secret)>>}

RequiredVarsInputs ==
    {<<>>, <<BACKEND_API_KEY>>, <<BACKEND_API_KEY, KEY>>, <<KEY, KEY>>}

\* a line is added to the .env file, creating it if need be
AppendLine(line) ==
    /\ Len(IF exists(dot_env) THEN dot_env.lines ELSE <<>>) < MaxLines
    /\ dot_env' = TextFile(Append(IF exists(dot_env) THEN dot_env.lines ELSE <<>>, line))
    /\ reply' = NoReply
    /\ UNCHANGED <<config_yaml, env_example, environ, updates, recordVars, scriptVars>>

\* manager.load_environment_variables()
LoadEnvironmentVariables ==
    /\ reply' = [op |-> "load_environment_variables",
                 outcome |-> Return(load_environment_variables(dot_env))]
    /\ UNCHANGED <<config_yaml, env_example, dot_env, environ, updates, recordVars, scriptVars>>

\* manager.validate_environment_variables(required_vars)
ValidateEnvironmentVariables(required_vars) ==
    /\ reply' = [op |-> "validate_environment_variables", required_vars |-> required_vars,
                 outcome |-> Return(validate_environment_variables(environ, dot_env,
                                                                  required_vars))]
    /\ UNCHANGED <<config_yaml, env_example, dot_env, environ, updates, recordVars, scriptVars>>

InitEnvironment ==
    /\ InitRecordsIdle
    /\ InitScriptIdle
    /\ config_yaml = NoFile
    /\ env_example = NoFile
    /\ dot_env \in {NoFile, TextFile(<<>>)}
    /\ environ \in InitialEnvirons
    /\ reply = NoReply
    /\ updates = 0

NextEnvironment ==
    \/ \E line \in EnvLines : AppendLine(line)
    \/ LoadEnvironmentVariables
    \/ \E required_vars \in RequiredVarsInputs : ValidateEnvironmentVariables(required_vars)

SpecEnvironment == InitEnvironment /\ [][NextEnvironment]_vars

(***************************************************************************)
(* A run of validate_setup.py                                              *)
(***************************************************************************)
\* sys.version_info (major, minor) of the interpreter
Versions == {<<3, 11>>, <<3, 12>>, <<3, 13>>, <<4, 0>>}

\* the certificate files present under /opt/ssl
CertificateSets ==
    {{}, {"/opt/ssl/privkey.pem"}, {"/opt/ssl/privkey.pem", "/opt/ssl/fullchain.pem"}}

\* gateway/config.yaml and gateway/.env as the script finds them
ScriptConfigFiles ==
    {NoFile,
     YamlFile(<<>>, EmptyDocument),
     YamlFile(<<>>, MalformedDocument),
     YamlFile(<<>>, sample_document),
     create_template_files(NoFile, NoFile).config_yaml}

ScriptEnvFiles ==
    {NoFile, TextFile(<<env_line_api_key>>), TextFile(<<env_line_comment, env_line_api_key_empty>>)}

\* a fix_setup.sh left by an earlier run and edited since
OldFixScript ==
    [kind |-> "script", lines |-> <<"#!/bin/bash", "echo old">>, mode |-> "0o644"]

\* what the commands of the checks can do
AwsVersionRuns ==
    {Completed(0, aws_version_text), Completed(0, <<>>), TimeoutExpired, CommandNotFound}

UvVersionRuns == {Completed(0, uv_version_text), TimeoutExpired, CommandNotFound}

IdentityRuns ==
    {Completed(0, identity_json), Completed(0, identity_text), Completed(255, <<>>),
     TimeoutExpired}

BucketListRuns == {Completed(0, buckets_text), Completed(1, <<>>), TimeoutExpired}

NetstatRuns ==
    {Completed(0, netstat_free), Completed(0, netstat_used), TimeoutExpired,
     CommandNotFound}

NotExited == [kind |-> "none"]

\* sys.exit(code)
Exited(code) == [kind |-> "exit", code |-> code]

\* main(): the banner, before the loop
StartMain ==
    /\ pc.at = "start"
    /\ stdout' = <<F("SRE Agent Setup Validation", <<>>)>>
    /\ results' = <<>>
    /\ pc' = [at |-> "check", index |-> 1]
    /\ UNCHANGED <<host, commands, fix_script, exit_code, recordVars, managerVars>>

\* the body of the loop of main, given what checks[index] did
RunCheck(index, checked) ==
    /\ results' = record_result(results, checks[index], checked)
    /\ stdout' = stdout \o <<headers[index]>>
                 \o (IF checked.outcome.kind = "raise"
                     THEN <<F("{name} check failed: {e}",
                              <<checks[index], checked.outcome.exc>>)>>
                     ELSE <<>>)
    /\ commands' = checked.commands
    /\ pc' = IF index < Len(checks)
             THEN [at |-> "check", index |-> index + 1]
             ELSE [at |-> "summary"]
    /\ UNCHANGED <<host, fix_script, exit_code, recordVars, managerVars>>

\* the loop is at checks[index]
AtCheck(index) == pc.at = "check" /\ pc.index = index

CheckPrerequisites ==
    /\ AtCheck(1)
    /\ \E aws \in AwsVersionRuns, uv \in UvVersionRuns :
           RunCheck(1, check_prerequisites(host.python, aws, uv))

CheckAwsCredentials ==
    /\ AtCheck(2)
    /\ \E sts \in IdentityRuns, s3 \in BucketListRuns :
           RunCheck(2, check_aws_credentials(sts, s3))

CheckConfiguration ==
    /\ AtCheck(3)
    /\ RunCheck(3, check_configuration(config_yaml, dot_env))

CheckSslCertificates ==
    /\ AtCheck(4)
    /\ RunCheck(4, check_ssl_certificates(host.certificates))

CheckPorts ==
    /\ AtCheck(5)
    /\ \E netstat \in NetstatRuns : RunCheck(5, check_ports(netstat))

\* main() after the loop: the summary, the fix script, the return
Summarise ==
    /\ pc.at = "summary"
    /\ stdout' = stdout \o summary(results)
    /\ fix_script' = IF passed(results) = Len(results)
                     THEN fix_script
                     ELSE generate_fix_script
    /\ pc' = [at |-> "returned", success |-> passed(results) = Len(results)]
    /\ UNCHANGED <<host, results, commands, exit_code, recordVars, managerVars>>

\* sys.exit(0 if success else 1)
Exit ==
    /\ pc.at = "returned"
    /\ exit_code' = Exited(IF pc.success THEN 0 ELSE 1)
    /\ pc' = [at |-> "exited"]
    /\ UNCHANGED <<host, results, stdout, commands, fix_script, recordVars, managerVars>>

InitScript ==
    /\ InitRecordsIdle
    /\ config_yaml \in ScriptConfigFiles
    /\ dot_env \in ScriptEnvFiles
    /\ env_example = NoFile
    /\ environ = <<>>
    /\ reply = NoReply
    /\ updates = 0
    /\ host \in [python : Versions, certificates : CertificateSets]
    /\ pc = [at |-> "start"]
    /\ results = <<>>
    /\ stdout = <<>>
    /\ commands = <<>>
    /\ fix_script \in {NoFile, OldFixScript}
    /\ exit_code = NotExited

NextScript ==
    \/ StartMain
    \/ CheckPrerequisites
    \/ CheckAwsCredentials
    \/ CheckConfiguration
    \/ CheckSslCertificates
    \/ CheckPorts
    \/ Summarise
    \/ Exit

SpecScript == InitScript /\ [][NextScript]_vars

(***************************************************************************)
(* From the templates to a configuration: create_template_files in an      *)
(* empty directory, then the placeholders replaced one at a time           *)
(***************************************************************************)
\* the keys the template leaves to be filled in
PlaceholderKeys == {"account_id", "user_pool_id", "client_id", "s3_bucket"}

\* '12345' typed without quotes is the int 12345
digits_text ==
    <<"1","2","3","4","5">>

\* update_config_parameter(key, value) calls that fill in a template key,
\* with a value that is well formed, ill formed or again a placeholder
ReplacementInputs ==
    {<<"account_id", StrValue(acct_ok)>>,
     <<"account_id", StrValue(acct_short)>>,
     <<"user_pool_id", StrValue(pool_ok)>>,
     <<"user_pool_id", StrValue(pool_nosep)>>,
     <<"client_id", StrValue(client_test)>>,
     <<"s3_bucket", StrValue(bucket_test)>>,
     <<"s3_bucket", StrValue(ph_bucket)>>}

\* the same keys rewritten in an editor: unquoted digits, a placeholder put
\* back, a value deleted
HandEdits ==
    {<<"account_id", Plain(acct_ok)>>,
     <<"user_pool_id", Plain(digits_text)>>,
     <<"client_id", Plain(ph_client)>>,
     <<"s3_bucket", Plain(<<>>)>>}

\* manager.update_config_parameter(key, value) on the file that is there
ReplaceParameter(key, value) ==
    LET updated == update_config_parameter(config_yaml, key, value)
    IN  /\ exists(config_yaml)
        /\ config_yaml' = updated.file
        /\ reply' = [op |-> "update_config_parameter", key |-> key, value |-> value,
                     outcome |-> updated.reply]
        /\ UNCHANGED <<env_example, dot_env, environ, updates, recordVars, scriptVars>>

\* config.yaml is edited by hand: the value of one key is retyped
EditByHand(key, node) ==
    /\ exists(config_yaml)
    /\ config_yaml.document.kind = "mapping"
    /\ config_yaml' = YamlFile(config_yaml.header,
                               edit_entry(config_yaml.document, key, node))
    /\ reply' = NoReply
    /\ UNCHANGED <<env_example, dot_env, environ, updates, recordVars, scriptVars>>

\* manager.validate_config(config), for the config load_config just returned
ValidateLoadedConfig ==
    /\ reply.op = "load_config"
    /\ reply.outcome.kind = "return"
    /\ reply' = [op |-> "validate_config", outcome |-> validate_config(reply.outcome.value)]
    /\ UNCHANGED <<config_yaml, env_example, dot_env, environ, updates, recordVars, scriptVars>>

\* a directory without config.yaml and .env.example
InitTemplate ==
    /\ InitRecordsIdle
    /\ InitScriptIdle
    /\ config_yaml = NoFile
    /\ env_example = NoFile
    /\ dot_env = NoFile
    /\ environ = <<>>
    /\ reply = NoReply
    /\ updates = 0

NextTemplate ==
    \/ CreateTemplateFiles
    \/ LoadConfig
    \/ ValidateLoadedConfig
    \/ GetAwsConfig
    \/ \E input \in ReplacementInputs : ReplaceParameter(input[1], input[2])
    \/ \E edit \in HandEdits : EditByHand(edit[1], edit[2])

SpecTemplate == InitTemplate /\ [][NextTemplate]_vars

\* each record is driven on its own; the validation run is the default one
Spec == SpecValidate

(***************************************************************************)
(* Properties of validate_config                                           *)
(***************************************************************************)
RequiredKeys ==
    {"account_id", "region", "role_name", "endpoint_url",
     "credential_provider_endpoint_url", "user_pool_id", "client_id",
     "gateway_name", "credential_provider_name"}

Returned == outcome.kind = "return"

Errors == outcome.value.errors

RequiredFmts ==
    {"Required AWS parameter '{param}' is missing or empty",
     "Required Cognito parameter '{param}' is missing or empty",
     "Required gateway parameter '{param}' is missing or empty"}

AccountFmt == "Invalid AWS account ID format: {account_id}"
RegionFmt == "Invalid AWS region format: {region}"
UrlFmt == "Invalid endpoint URL: {url}"
PoolFmt == "Invalid Cognito User Pool ID format: {pool_id}"
PlaceholderFmt == "Configuration parameter '{key}' contains placeholder value: {value}"

\* the returned list holds an error on field k whose message is one of fmts
HasError(k, fmts) ==
    \E i \in DOMAIN Errors : Errors[i].field = k /\ Errors[i].message.fmt \in fmts

\* key k is absent, or present with an empty value
AbsentOrEmpty(k) ==
    \/ ~has_key(config, k)
    \/ getitem(config, k) \in {StrValue(<<>>), NoneValue}

IsStrAt(k) == has_key(config, k) /\ getitem(config, k).type = "str"

NonEmptyStrAt(k) == IsStrAt(k) /\ getitem(config, k).chars /= <<>>

CharsAt(k) == getitem(config, k).chars

PlaceholderSet == {ph_account, ph_region, <<>>, ph_pool, ph_client, ph_bucket}

PlaceholderAt(k) == IsStrAt(k) /\ CharsAt(k) \in PlaceholderSet

\* s without its leading and trailing whitespace: from its first to its last
\* character that is not whitespace
Trimmed(s) ==
    LET solid == {i \in DOMAIN s : s[i] \notin Whitespace}
    IN  IF solid = {}
        THEN <<>>
        ELSE SubSeq(s, CHOOSE i \in solid : \A j \in solid : i <= j,
                       CHOOSE i \in solid : \A j \in solid : j <= i)

AllIn(s, chars) == \A i \in DOMAIN s : s[i] \in chars

TwelveAsciiDigits(s) == Len(s) = 12 /\ AllIn(s, AsciiDigits)

TwelveDigits(s) == Len(s) = 12 /\ AllIn(s, AsciiDigits \cup OtherDigits)

AlnumChars == AsciiLetters \cup AsciiDigits \cup OtherDigits

\* letters, digits, hyphens and underscores, with at least one letter or digit
RegionShaped(s) ==
    /\ AllIn(s, AlnumChars \cup {"-", "_"})
    /\ \E i \in DOMAIN s : s[i] \in AlnumChars

\* region_POOLID: a separator, and before the first one letters, digits and
\* hyphens, with at least one letter or digit
PoolShaped(s) ==
    \E i \in DOMAIN s :
        /\ s[i] = "_"
        /\ \A j \in 1..(i - 1) : s[j] \in AlnumChars \cup {"-"}
        /\ \E j \in 1..(i - 1) : s[j] \in AlnumChars

HttpsUrl(s) == Len(s) >= 8 /\ SubSeq(s, 1, 8) = <<"h", "t", "t", "p", "s", ":", "/", "/">>

\* the value at k has the form its format check asks for
WellFormedAt(k) ==
    CASE k = "account_id" ->
            \/ IsStrAt(k) /\ TwelveAsciiDigits(CharsAt(k))
            \/ /\ has_key(config, k)
               /\ getitem(config, k).type = "int"
               /\ Len(getitem(config, k).digits) = 12
      [] k = "region" -> NonEmptyStrAt(k) /\ RegionShaped(CharsAt(k))
      [] k \in {"endpoint_url", "credential_provider_endpoint_url"} ->
            IsStrAt(k) /\ HttpsUrl(CharsAt(k))
      [] k = "user_pool_id" -> IsStrAt(k) /\ PoolShaped(CharsAt(k))
      [] OTHER -> NonEmptyStrAt(k)

NoPlaceholders == \A i \in DOMAIN config : ~PlaceholderAt(config[i].key)

\* (* C1 *) Every required key that is absent from the mapping, or present with
\* an empty value, makes validate_config return a result with is_valid = FALSE
\* that holds at least one error whose field is that key.
C1_MissingKeyReported ==
    outcome /= NotCalled =>
        \A k \in RequiredKeys :
            AbsentOrEmpty(k) =>
                /\ Returned
                /\ outcome.value.is_valid = FALSE
                /\ \E i \in DOMAIN Errors : Errors[i].field = k

\* (* C2 *) A mapping that holds all nine required keys with well-formed values
\* and no placeholder sentinel or empty string under any key is returned as
\* is_valid = TRUE, status VALID, with an empty error list.
C2_WellFormedIsValid ==
    (outcome /= NotCalled /\ NoPlaceholders /\ \A k \in RequiredKeys : WellFormedAt(k)) =>
        /\ Returned
        /\ outcome.value.is_valid = TRUE
        /\ outcome.value.status = VALID
        /\ Errors = <<>>

\* a well-formed mapping other than the fixture has been validated
C2_Witness ==
    /\ Returned
    /\ NoPlaceholders
    /\ \A k \in RequiredKeys : WellFormedAt(k)
    /\ getitem(config, "region") = StrValue(region_underscore)
    /\ getitem(config, "account_id").type = "int"
    /\ Errors = <<>>

\* (* C3 *) Whenever validate_config returns, is_valid is FALSE exactly when the
\* error list is non-empty, and status is INVALID when the list is non-empty
\* and VALID when it is empty.
C3_ValidIffNoErrors ==
    Returned =>
        /\ outcome.value.is_valid = FALSE <=> Errors /= <<>>
        /\ outcome.value.status = (IF Errors /= <<>> THEN INVALID ELSE VALID)

\* a call has returned several errors
C3_Witness == Returned /\ Len(Errors) >= 2 /\ outcome.value.status = INVALID

FormatKeys == {"account_id", "region", "endpoint_url", "credential_provider_endpoint_url",
               "user_pool_id"}

\* the non-empty, non-placeholder string at k breaks the format asked of k, its
\* surrounding whitespace set aside
MalformedAt(k) ==
    /\ NonEmptyStrAt(k)
    /\ ~PlaceholderAt(k)
    /\ LET s == Trimmed(CharsAt(k))
       IN  CASE k = "account_id" -> ~TwelveDigits(s)
             [] k = "region" -> ~RegionShaped(s)
             [] k = "user_pool_id" -> ~PoolShaped(s)
             [] OTHER -> ~HttpsUrl(s)

\* (* C5 *) When every key holds a well-formed, non-placeholder value except one
\* field whose non-placeholder value breaks its format, validate_config returns
\* exactly one error, on that field, and for an endpoint URL the suggestion is
\* the one that mentions HTTPS.
C5_SingleFormatError ==
    \A k \in FormatKeys :
        (/\ outcome /= NotCalled
         /\ MalformedAt(k)
         /\ NoPlaceholders
         /\ \A other \in RequiredKeys \ {k} : WellFormedAt(other)) =>
            /\ Returned
            /\ Len(Errors) = 1
            /\ Errors[1].field = k
            /\ k \in {"endpoint_url", "credential_provider_endpoint_url"} =>
                   Errors[1].suggestion = F("Endpoint URLs must use HTTPS", <<>>)

\* the short account id of the example has been validated in an otherwise
\* well-formed mapping and drew one error
C5_Witness ==
    /\ Returned
    /\ NoPlaceholders
    /\ IsStrAt("account_id")
    /\ CharsAt("account_id") = acct_short
    /\ \A other \in RequiredKeys \ {"account_id"} : WellFormedAt(other)
    /\ Len(Errors) = 1

AllStrings == \A i \in DOMAIN config : config[i].value.type = "str"

\* the check an error comes from, in the order the checks are made
Phase(e) ==
    CASE e.message.fmt \in RequiredFmts -> 1
      [] e.message.fmt = AccountFmt -> 2
      [] e.message.fmt = RegionFmt -> 3
      [] e.message.fmt = UrlFmt -> 4
      [] e.message.fmt = PoolFmt -> 5
      [] e.message.fmt = PlaceholderFmt -> 6

\* (* C6 *) On a mapping of string values validate_config returns, and the
\* error list holds an error for every violation the mapping contains (each
\* missing or empty required key, a malformed account id, a malformed region,
\* each non-HTTPS endpoint URL, a malformed user pool id, each key holding a
\* placeholder sentinel), whatever else is wrong with it, in the order presence
\* checks, account id, region, endpoint URLs, user pool id, placeholder scan.
C6_AllViolationsReported ==
    (outcome /= NotCalled /\ AllStrings) =>
        /\ Returned
        /\ \A k \in RequiredKeys : AbsentOrEmpty(k) => HasError(k, RequiredFmts)
        /\ NonEmptyStrAt("account_id") /\ ~TwelveDigits(Trimmed(CharsAt("account_id")))
               => HasError("account_id", {AccountFmt})
        /\ NonEmptyStrAt("region") /\ ~RegionShaped(Trimmed(CharsAt("region")))
               => HasError("region", {RegionFmt})
        /\ \A k \in {"endpoint_url", "credential_provider_endpoint_url"} :
               NonEmptyStrAt(k) /\ ~HttpsUrl(Trimmed(CharsAt(k))) => HasError(k, {UrlFmt})
        /\ NonEmptyStrAt("user_pool_id") /\ ~PoolShaped(Trimmed(CharsAt("user_pool_id")))
               => HasError("user_pool_id", {PoolFmt})
        /\ \A i \in DOMAIN config :
               PlaceholderAt(config[i].key) => HasError(config[i].key, {PlaceholderFmt})
        /\ \A i, j \in DOMAIN Errors : i < j => Phase(Errors[i]) <= Phase(Errors[j])

\* one call has reported a missing key, a malformed value and a placeholder
\* together
C6_Witness ==
    /\ Returned
    /\ AllStrings
    /\ \E k \in RequiredKeys : HasError(k, RequiredFmts)
    /\ \E k \in FormatKeys : HasError(k, {AccountFmt, RegionFmt, UrlFmt, PoolFmt})
    /\ \E i \in DOMAIN config : HasError(config[i].key, {PlaceholderFmt})
    /\ Len(Errors) >= 4

(***************************************************************************)
(* Properties of the result and state records                              *)
(***************************************************************************)
\* valid -> warning -> invalid
Level(status) == CASE status = VALID -> 0 [] status = WARNING -> 1 [] status = INVALID -> 2

\* (* C7 *) From (is_valid = TRUE, VALID): every add_error leaves is_valid FALSE
\* and status INVALID; status never moves to an earlier level of valid ->
\* warning -> invalid; add_warning after an error leaves INVALID and is_valid
\* FALSE, and add_warning on VALID gives WARNING with is_valid still TRUE.
C7_StatusOnlyEscalates ==
    [][/\ last'.op = "add_error" =>
              result'.is_valid = FALSE /\ result'.status = INVALID
       /\ Level(result'.status) >= Level(result.status)
       /\ (last'.op = "add_warning" /\ result.errors /= <<>>) =>
              result'.status = INVALID /\ result'.is_valid = FALSE
       /\ (last'.op = "add_warning" /\ result.status = VALID) =>
              result'.status = WARNING /\ result'.is_valid = TRUE]_vars

\* a warning has been added after an error, and the status stayed INVALID
C7_Witness ==
    /\ last.op = "add_warning"
    /\ result.errors /= <<>>
    /\ result.warnings /= <<>>
    /\ result.status = INVALID

\* (* C8 *) completed_steps and failed_steps have no step in common, whatever
\* mark_step_completed and mark_step_failed calls were made from empty lists.
C8_CompletedFailedDisjoint ==
    \A step \in Steps :
        ~(in_list(step, state.completed_steps) /\ in_list(step, state.failed_steps))

Count(x, l) == Cardinality({i \in DOMAIN l : l[i] = x})

\* (* C9 *) Right after mark_step_completed(s), s is in completed_steps exactly
\* once and not in failed_steps, every other step is in each list exactly if it
\* was before, and can_resume_from(s) is true.
C9_CompletedStep ==
    [][\A s \in Steps :
           last' = [op |-> "mark_step_completed", step |-> s] =>
               /\ Count(s, state'.completed_steps) = 1
               /\ ~in_list(s, state'.failed_steps)
               /\ \A t \in Steps \ {s} :
                      /\ in_list(t, state'.completed_steps) <=> in_list(t, state.completed_steps)
                      /\ in_list(t, state'.failed_steps) <=> in_list(t, state.failed_steps)
               /\ can_resume_from(state', s)]_vars

\* a step that is not the current one has been completed while another step is
\* still recorded as failed
C9_Witness ==
    /\ last.op = "mark_step_completed"
    /\ last.step /= state.step
    /\ in_list(last.step, state.completed_steps)
    /\ state.failed_steps /= <<>>
    /\ Len(state.completed_steps) >= 2

\* (* C10 *) From (success = TRUE, SUCCESS): the first add_error with
\* recoverable = FALSE leaves status FAILED whatever errors came before it;
\* every add_error leaves success FALSE and the status away from SUCCESS.
C10_FirstNonRecoverableFails ==
    /\ setup.errors /= <<>> => setup.success = FALSE /\ setup.status /= SUCCESS
    /\ (/\ last.op = "add_error"
        /\ last.recoverable = FALSE
        /\ \A i \in 1..(Len(setup.errors) - 1) : setup.errors[i].recoverable) =>
           setup.status = FAILED

(***************************************************************************)
(* Properties of the configuration file calls                              *)
(***************************************************************************)
SixKeys ==
    {"account_id", "role_name", "user_pool_id", "client_id", "s3_bucket",
     "credential_provider_name"}

Outcome == reply.outcome

IsReturn(o) == o.kind = "return"

\* the document of config.yaml is a mapping with at least one entry
NonEmptyMapping(file) ==
    /\ exists(file)
    /\ file.document.kind = "mapping"
    /\ file.document.entries /= <<>>

\* the value of a key as load_config is to return it, given the parsed one
LoadedValue(key, parsed) ==
    IF key \in SixKeys /\ parsed.type = "str"
    THEN StrValue(Trimmed(parsed.chars))
    ELSE parsed

\* (* C11 *) load_config raises the missing-file error when config.yaml does
\* not exist and the YAML error when it is malformed, returns the empty
\* mapping for an empty document, and otherwise returns the parsed mapping
\* in which the string values of exactly the six identifier keys are
\* trimmed and every other value is as parsed.
C11_LoadConfig ==
    reply.op = "load_config" =>
        CASE ~exists(config_yaml) -> Outcome = Raise("FileNotFoundError")
          [] config_yaml.document.kind = "malformed" -> Outcome = Raise("YAMLError")
          [] ~NonEmptyMapping(config_yaml) -> Outcome = Return(<<>>)
          [] OTHER ->
                 LET parsed == construct_mapping(config_yaml.document.entries)
                 IN  /\ IsReturn(Outcome)
                     /\ Len(Outcome.value) = Len(parsed)
                     /\ \A i \in DOMAIN parsed :
                            /\ Outcome.value[i].key = parsed[i].key
                            /\ Outcome.value[i].value =
                                   LoadedValue(parsed[i].key, parsed[i].value)

\* a padded role_name came back trimmed and a padded gateway_name untouched
C11_Witness ==
    /\ reply.op = "load_config"
    /\ IsReturn(Outcome)
    /\ has_key(Outcome.value, "role_name")
    /\ has_key(Outcome.value, "gateway_name")
    /\ getitem(Outcome.value, "role_name") = StrValue(role_test)
    /\ getitem(Outcome.value, "gateway_name") = StrValue(gateway_padded)
    /\ \E i \in DOMAIN config_yaml.document.entries :
           config_yaml.document.entries[i] = Entry("role_name", Quoted(role_padded))

Accessors == {"get_aws_config", "get_credential_config", "get_gateway_config"}

Loaded == load_config(config_yaml)

\* validate_config returns, for the loaded configuration, a result not valid
FailsValidation ==
    /\ IsReturn(Loaded)
    /\ IsReturn(validate_config(Loaded.value))
    /\ ~validate_config(Loaded.value).value.is_valid

PassesValidation ==
    /\ IsReturn(Loaded)
    /\ IsReturn(validate_config(Loaded.value))
    /\ validate_config(Loaded.value).value.is_valid

\* the error that lists the validation errors of the loaded configuration
AggregateError == ValueError(validate_config(Loaded.value).value.errors)

\* (* C12 *) as claimed: each of get_aws_config, get_credential_config and
\* get_gateway_config raises the error listing the validation errors
\* whenever the loaded configuration fails validation, and returns no record.
C12_AllAccessorsValidate ==
    (reply.op \in Accessors /\ FailsValidation) => Outcome = AggregateError

\* (* C12 *) get_aws_config raises the error listing the validation errors
\* whenever the loaded configuration fails validation; get_credential_config
\* and get_gateway_config do not validate: whenever the file loads and the
\* values they trim are strings they return the record built from the loaded
\* keys and their defaults.
C12_OnlyAwsConfigValidates ==
    /\ (reply.op = "get_aws_config" /\ FailsValidation) => Outcome = AggregateError
    /\ (reply.op = "get_credential_config" /\ IsReturn(Loaded)) =>
           LET provider_name == get(Loaded.value, "credential_provider_name",
                                    StrValue(provider_template))
               region == get(Loaded.value, "region", StrValue(region_ok))
           IN  IF is_str(provider_name) /\ is_str(region)
               THEN /\ IsReturn(Outcome)
                    /\ Outcome.value.class = "CredentialConfig"
                    /\ Outcome.value.provider_name = StrValue(Trimmed(provider_name.chars))
                    /\ Outcome.value.region = StrValue(Trimmed(region.chars))
                    /\ Outcome.value.api_key = StrValue(api_key_test)
               ELSE Outcome = Raise("AttributeError")
    /\ (reply.op = "get_gateway_config" /\ IsReturn(Loaded)) =>
           LET name == get(Loaded.value, "gateway_name", StrValue(gateway_template))
           IN  IF is_str(name)
               THEN /\ IsReturn(Outcome)
                    /\ Outcome.value.class = "GatewayConfig"
                    /\ Outcome.value.name = StrValue(Trimmed(name.chars))
               ELSE Outcome = Raise("AttributeError")

\* get_gateway_config returned a record for a configuration that fails
\* validation, and get_aws_config has something to refuse
C12_Witness ==
    /\ reply.op = "get_gateway_config"
    /\ FailsValidation
    /\ IsReturn(Outcome)
    /\ get_aws_config(config_yaml) = AggregateError

\* (* C13 *) get_aws_config returns an AWSConfig for every loaded
\* configuration that validate_config accepts, an unquoted integer
\* account_id included.
C13_ValidConfigReturnsAWSConfig ==
    (reply.op = "get_aws_config" /\ PassesValidation) =>
        (IsReturn(Outcome) /\ Outcome.value.class = "AWSConfig")

\* (* C14 *) every AWSConfig constructed, directly or by get_aws_config, has
\* an account_id of exactly 12 ASCII digits and a role_name without leading
\* or trailing whitespace.
C14_AccountIdTwelveAsciiDigits ==
    (reply.op \in {"AWSConfig", "get_aws_config"} /\ IsReturn(Outcome)) =>
        /\ TwelveAsciiDigits(Outcome.value.account_id.chars)
        /\ Trimmed(Outcome.value.role_name.chars) = Outcome.value.role_name.chars

TemplateConfigFile ==
    YamlFile(<<"# AgentCore Gateway Configuration",
               "# Replace placeholder values with your actual configuration">>,
             yaml_dump(config_template))

\* (* C15 *) create_template_files writes config.yaml only if it is absent
\* and .env.example only if it is absent, leaves an existing file as it is,
\* and a second call changes nothing.
C15_TemplatesOnlyWhenAbsent ==
    [][reply'.op = "create_template_files" =>
          /\ exists(config_yaml) => config_yaml' = config_yaml
          /\ exists(env_example) => env_example' = env_example
          /\ ~exists(config_yaml) => config_yaml' = TemplateConfigFile
          /\ ~exists(env_example) => env_example' = TextFile(env_template)
          /\ create_template_files(config_yaml', env_example') =
                 [config_yaml |-> config_yaml', env_example |-> env_example']
      ]_vars

\* after the call config.yaml is the template just written and .env.example
\* is the file that was there before
C15_Witness ==
    /\ reply.op = "create_template_files"
    /\ config_yaml = TemplateConfigFile
    /\ exists(env_example)
    /\ env_example /= TextFile(env_template)

\* the mapping load_config gives, with a missing file read as empty
LoadedOrEmpty(file) ==
    IF ~exists(file) THEN Return(<<>>) ELSE load_config(file)

\* the step of an update_config_parameter(key, value) call that returned
UpdateReturned ==
    /\ updates' = updates + 1
    /\ reply'.op = "update_config_parameter"
    /\ IsReturn(reply'.outcome)

\* every key but the updated one is in both mappings or neither, with one value
OthersUnchanged(before, after, key) ==
    /\ \A i \in DOMAIN before :
           before[i].key /= key =>
               /\ has_key(after, before[i].key)
               /\ getitem(after, before[i].key) = before[i].value
    /\ \A i \in DOMAIN after :
           after[i].key /= key => has_key(before, after[i].key)

\* (* C16 *) as claimed: after update_config_parameter(key, value),
\* load_config returns a mapping in which key maps to value and every other
\* key is unchanged.
C16_KeyMapsToValue ==
    [][(updates' = updates + 1 /\ reply'.op = "update_config_parameter") =>
          \A before \in {LoadedOrEmpty(config_yaml)}, after \in {load_config(config_yaml')} :
              /\ IsReturn(after)
              /\ has_key(after.value, reply'.key)
              /\ getitem(after.value, reply'.key) = reply'.value
              /\ OthersUnchanged(before.value, after.value, reply'.key)
      ]_vars

\* (* C16 *) update_config_parameter(key, value) raises the YAML error and
\* leaves the file as it is when config.yaml is malformed; otherwise, after
\* it, load_config returns a mapping in which key maps to value, trimmed when
\* key is one of the six identifier keys, and every other key is as
\* load_config returned it before (nothing, when there was no file).
C16_KeyMapsToLoadedValue ==
    [][(updates' = updates + 1 /\ reply'.op = "update_config_parameter") =>
          IF exists(config_yaml) /\ config_yaml.document.kind = "malformed"
          THEN /\ reply'.outcome = Raise("YAMLError")
               /\ config_yaml' = config_yaml
          ELSE \A before \in {LoadedOrEmpty(config_yaml)},
                  after \in {load_config(config_yaml')} :
                   /\ IsReturn(reply'.outcome)
                   /\ IsReturn(after)
                   /\ has_key(after.value, reply'.key)
                   /\ getitem(after.value, reply'.key) =
                          LoadedValue(reply'.key, reply'.value)
                   /\ OthersUnchanged(before.value, after.value, reply'.key)
      ]_vars

\* a padded role_name was written into a file that held other keys, and is
\* loaded trimmed
C16_Witness ==
    /\ reply.op = "update_config_parameter"
    /\ IsReturn(Outcome)
    /\ reply.key = "role_name"
    /\ reply.value = StrValue(role_padded)
    /\ IsReturn(Loaded)
    /\ getitem(Loaded.value, "role_name") = StrValue(role_test)
    /\ has_key(Loaded.value, "gateway_name")

(***************************************************************************)
(* Properties of the environment calls                                     *)
(***************************************************************************)
EnvFileLines == IF exists(dot_env) THEN dot_env.lines ELSE <<>>

\* the line, trimmed, is not blank, does not begin with '#' and has an '='
Assigning(line) ==
    /\ Trimmed(line) /= <<>>
    /\ Trimmed(line)[1] /= "#"
    /\ \E i \in DOMAIN Trimmed(line) : Trimmed(line)[i] = "="

FirstEquals(text) ==
    CHOOSE i \in DOMAIN text : text[i] = "=" /\ \A j \in 1..(i - 1) : text[j] /= "="

KeyOf(line) ==
    Trimmed(SubSeq(Trimmed(line), 1, FirstEquals(Trimmed(line)) - 1))

ValueOf(line) ==
    Trimmed(SubSeq(Trimmed(line), FirstEquals(Trimmed(line)) + 1, Len(Trimmed(line))))

\* the last assignment to key in the lines gives value
LastAssigns(lines, key, value) ==
    \E i \in DOMAIN lines :
        /\ Assigning(lines[i])
        /\ KeyOf(lines[i]) = key
        /\ ValueOf(lines[i]) = value
        /\ \A j \in (i + 1)..Len(lines) : Assigning(lines[j]) => KeyOf(lines[j]) /= key

\* (* C17 *) load_environment_variables returns the mapping with one entry,
\* trimmed key to trimmed value split at the first '=', for each line of .env
\* that after trimming is not blank, does not begin with '#' and contains
\* '='; a later line for a key replaces an earlier one, other lines add
\* nothing, and a missing file gives the empty mapping.  A file of
\* '# comment', a blank line and 'KEY = value' gives exactly {KEY: "value"}.
C17_EnvFileParsed ==
    reply.op = "load_environment_variables" =>
        /\ \A i, j \in DOMAIN Outcome.value :
               Outcome.value[i].key = Outcome.value[j].key => i = j
        /\ \A i \in DOMAIN Outcome.value :
               LastAssigns(EnvFileLines, Outcome.value[i].key, Outcome.value[i].value)
        /\ \A i \in DOMAIN EnvFileLines :
               Assigning(EnvFileLines[i]) => has_key(Outcome.value, KeyOf(EnvFileLines[i]))
        /\ EnvFileLines = <<env_line_comment, env_line_blank, env_line_spaced>> =>
               Outcome.value = <<Item(KEY, <<"v","a","l","u","e">>)>>

\* KEY = value was replaced by KEY=a=b, after a comment line
C17_Witness ==
    /\ reply.op = "load_environment_variables"
    /\ EnvFileLines = <<env_line_spaced, env_line_indented_comment, env_line_two_equals>>
    /\ Outcome.value = <<Item(KEY, <<"a", "=", "b">>)>>

\* .env assigns the name
AssignedInEnvFile(name) ==
    \E i \in DOMAIN EnvFileLines :
        Assigning(EnvFileLines[i]) /\ KeyOf(EnvFileLines[i]) = name

\* in the union of os.environ and .env, where .env wins, the name has no
\* value or the empty one
MissingOrEmpty(name) ==
    IF AssignedInEnvFile(name)
    THEN LastAssigns(EnvFileLines, name, <<>>)
    ELSE \A i \in DOMAIN environ : environ[i].key = name => environ[i].value = <<>>

\* (* C18 *) validate_environment_variables(required_vars) reports, against
\* the union of os.environ and the parsed .env, one error whose field is the
\* name for each entry of required_vars that is missing or empty there and no
\* error for an entry with a non-empty value, and its result is not valid if
\* and only if at least one name was reported.
C18_OneErrorPerMissingName ==
    reply.op = "validate_environment_variables" =>
        LET reported == SelectSeq(reply.required_vars, MissingOrEmpty)
        IN  /\ Len(Outcome.value.errors) = Len(reported)
            /\ \A i \in DOMAIN reported :
                   Outcome.value.errors[i].field = Join(reported[i])
            /\ Outcome.value.is_valid <=> (reported = <<>>)

\* BACKEND_API_KEY, left empty in .env, is the one name reported; KEY has a
\* value
C18_Witness ==
    /\ reply.op = "validate_environment_variables"
    /\ reply.required_vars = <<BACKEND_API_KEY, KEY>>
    /\ LastAssigns(EnvFileLines, BACKEND_API_KEY, <<>>)
    /\ Len(Outcome.value.errors) = 1
    /\ Outcome.value.errors[1].field = "BACKEND_API_KEY"
    /\ ~Outcome.value.is_valid

(***************************************************************************)
(* Properties of the validation script                                     *)
(***************************************************************************)
\* the headers printed so far, in the order printed
HeadersPrinted ==
    SelectSeq(stdout, LAMBDA line : \E i \in DOMAIN headers : line = headers[i])

\* how many turns of the loop are done
Turns ==
    CASE pc.at = "start" -> 0
      [] pc.at = "check" -> pc.index - 1
      [] OTHER -> Len(checks)

FiveChecks ==
    <<"Prerequisites", "AWS Credentials", "Configuration", "SSL Certificates",
      "Port Availability">>

\* the line main prints for a check that raised
RaisedLine(name) ==
    \E i \in DOMAIN stdout :
        /\ stdout[i].fmt = "{name} check failed: {e}"
        /\ stdout[i].args[1] = name

SummaryPrinted == \E i \in DOMAIN stdout : stdout[i].fmt = "Validation Summary"

\* (* C19 *) main runs the five checks once each in the order Prerequisites,
\* AWS Credentials, Configuration, SSL Certificates, Port Availability: every
\* turn of the loop, whatever the check did, records that check and moves to
\* the next one; a check that raised or returned false is recorded as
\* failed; and the summary is printed only after all five have run.
C19_FiveChecksInOrder ==
    /\ [](/\ Len(results) = Turns
          /\ \A i \in DOMAIN results : results[i][1] = FiveChecks[i]
          /\ HeadersPrinted = SubSeq(headers, 1, Turns)
          /\ \A i \in DOMAIN results : RaisedLine(FiveChecks[i]) => ~results[i][2]
          /\ Len(results) >= 3 => (~exists(config_yaml) => ~results[3][2])
          /\ Len(results) >= 4 => (results[4][2] <=> Cardinality(host.certificates) = 2)
          /\ SummaryPrinted => (Turns = 5 /\ pc.at \in {"returned", "exited"}))
    /\ [][pc.at = "check" =>
              /\ Len(results') = Len(results) + 1
              /\ SubSeq(results', 1, Len(results)) = results
              /\ pc' = IF pc.index < 5
                       THEN [at |-> "check", index |-> pc.index + 1]
                       ELSE [at |-> "summary"]
         ]_vars

\* the run is over: the first check raised, the third failed, and the
\* fourth and fifth still ran and passed
C19_Witness ==
    /\ pc.at = "exited"
    /\ RaisedLine("Prerequisites")
    /\ results[1] = <<"Prerequisites", FALSE>>
    /\ results[3] = <<"Configuration", FALSE>>
    /\ results[4] = <<"SSL Certificates", TRUE>>
    /\ results[5] = <<"Port Availability", TRUE>>
    /\ SummaryPrinted

AllPassed == \A i \in DOMAIN results : results[i][2]

\* (* C20 *) the script exits with code 0 if and only if all five checks
\* returned true and with code 1 otherwise; fix_setup.sh is written, with
\* the fixed text and mode 0755 over whatever was there, if and only if a
\* check failed or raised, and is left as it was when all passed.
C20_ExitCodeAndFixScript ==
    /\ [](exit_code.kind = "exit" =>
              /\ Len(results) = 5
              /\ exit_code.code = (IF AllPassed THEN 0 ELSE 1)
              /\ AllPassed =>
                     /\ \A i \in DOMAIN FiveChecks : ~RaisedLine(FiveChecks[i])
                     /\ version_ok(host.python)
                     /\ Cardinality(host.certificates) = 2
                     /\ exists(config_yaml))
    /\ [][IF pc.at = "summary" /\ ~AllPassed
          THEN fix_script' = [kind |-> "script", lines |-> fix_script_text, mode |-> "0o755"]
          ELSE fix_script' = fix_script
         ]_vars

\* a run that passed some checks and failed others exited with 1 and left
\* the fix script with mode 0755
C20_Witness ==
    /\ exit_code.kind = "exit"
    /\ exit_code.code = 1
    /\ \E i \in DOMAIN results : results[i][2]
    /\ fix_script.kind = "script"
    /\ fix_script.lines = fix_script_text
    /\ fix_script.mode = "0o755"
    /\ host.python = <<3, 12>>

\* the log of a check holds a subprocess.run of cmd that timed out
TimedOut(log, cmd) ==
    \E i \in DOMAIN log : log[i].cmd = cmd /\ log[i].kind = "timeout"

\* no command appears twice in the log of a check
RunOnce(log) == \A i, j \in DOMAIN log : log[i].cmd = log[j].cmd => i = j

\* the commands the checks run
Probes ==
    {"aws --version", "uv --version", "aws sts get-caller-identity", "aws s3 ls",
     "netstat -tlnp"}

\* every check that ran a command that timed out is recorded as failed, and
\* ran no command twice
C21_TimeoutFailsCheck ==
    [][pc.at = "check" =>
           /\ RunOnce(commands')
           /\ (\E cmd \in Probes : TimedOut(commands', cmd)) =>
                  ~results'[Len(results')][2]
      ]_vars

\* (* C21 *) no check runs a command twice; a timeout of the aws or uv
\* version probe or of the identity command makes its check fail, while a
\* timeout of the storage listing or of netstat is only a warning: the
\* credentials check and the port check that met it are recorded as passed.
C21_TimeoutFailsRequiredProbes ==
    [][pc.at = "check" =>
           /\ RunOnce(commands')
           /\ \A cmd \in {"aws --version", "uv --version", "aws sts get-caller-identity"} :
                  TimedOut(commands', cmd) => ~results'[Len(results')][2]
           /\ \A cmd \in {"aws s3 ls", "netstat -tlnp"} :
                  TimedOut(commands', cmd) => results'[Len(results')][2]
      ]_vars

\* netstat timed out and the port check passed, after a credentials check
\* that failed
C21_Witness ==
    /\ pc.at = "summary"
    /\ commands = <<[cmd |-> "netstat -tlnp", kind |-> "timeout"]>>
    /\ results[5] = <<"Port Availability", TRUE>>
    /\ results[2] = <<"AWS Credentials", FALSE>>

\* the keys check_configuration lists as holding a placeholder
ScriptFlagged(cfg) ==
    {found_placeholders(cfg)[i].key : i \in DOMAIN found_placeholders(cfg)}

\* the keys validate_config appends a placeholder error for
ManagerFlagged(cfg) ==
    LET errors == check_placeholders(ValidationResult(TRUE, VALID), cfg, 1).errors
    IN  {errors[i].field : i \in DOMAIN errors}

\* config.yaml parses to a mapping
ParsedMapping ==
    /\ exists(config_yaml)
    /\ yaml_safe_load(config_yaml.document).kind = "return"
    /\ yaml_safe_load(config_yaml.document).value.type = "dict"

\* (* C22 *) as claimed: when the Configuration check runs on a config.yaml
\* that parses to a mapping, the keys it flags as placeholders are the keys
\* validate_config appends a placeholder error for, so a check that passes
\* leaves validate_config no placeholder to report.
C22_SamePlaceholderDetection ==
    [][(AtCheck(3) /\ ParsedMapping) =>
           /\ ScriptFlagged(yaml_safe_load(config_yaml.document).value.items) =
                  ManagerFlagged(yaml_safe_load(config_yaml.document).value.items)
           /\ results'[3][2] =>
                  ManagerFlagged(yaml_safe_load(config_yaml.document).value.items) = {}
      ]_vars

\* (major, minor) is at least (3, 12) in version order
AtLeast312(version) ==
    \/ version[1] > 3
    \/ version[1] = 3 /\ version[2] >= 12

\* both version probes of the Prerequisites check completed
ProbesCompleted(log) ==
    /\ Len(log) = 2
    /\ \A i \in DOMAIN log : log[i].kind = "completed"

\* (* C23 *) as claimed: a Prerequisites check whose aws and uv probes both
\* succeeded passes if and only if the interpreter version is at least
\* (3, 12) in version order, so it passes for 3.12, 3.13 and 4.0 and fails
\* for 3.11.
C23_VersionOrder ==
    [][(AtCheck(1) /\ ProbesCompleted(commands')) =>
           (results'[1][2] <=> AtLeast312(host.python))
      ]_vars

\* validate_environment_variables reported the name
Reported(name) ==
    \E i \in DOMAIN Outcome.value.errors : Outcome.value.errors[i].field = Join(name)

\* (* C24 *) for a required name that both os.environ and the .env file
\* define, validate_environment_variables checks the value of the .env file:
\* the name is reported if and only if the last assignment to it in .env is
\* empty, whatever its value in os.environ.
C24_EnvFileOverridesEnviron ==
    reply.op = "validate_environment_variables" =>
        \A i \in DOMAIN reply.required_vars :
            (/\ has_key(environ, reply.required_vars[i])
             /\ AssignedInEnvFile(reply.required_vars[i])) =>
                (Reported(reply.required_vars[i]) <=>
                     LastAssigns(EnvFileLines, reply.required_vars[i], <<>>))

\* BACKEND_API_KEY has a value in os.environ and the empty one in .env, and
\* is reported
C24_Witness ==
    /\ reply.op = "validate_environment_variables"
    /\ has_key(environ, BACKEND_API_KEY)
    /\ getitem(environ, BACKEND_API_KEY) = os_secret
    /\ LastAssigns(EnvFileLines, BACKEND_API_KEY, <<>>)
    /\ reply.required_vars = <<BACKEND_API_KEY>>
    /\ Reported(BACKEND_API_KEY)
    /\ ~Outcome.value.is_valid

(***************************************************************************)
(* Properties of the way from the templates to a configuration             *)
(***************************************************************************)
\* the fields of the placeholder errors of a validation result
PlaceholderErrorFields(validation) ==
    {validation.errors[i].field :
         i \in {j \in DOMAIN validation.errors :
                    validation.errors[j].message.fmt =
                        "Configuration parameter '{key}' contains placeholder value: {value}"}}

\* config.yaml loads, and a template key still holds a placeholder value
PlaceholderLeft ==
    /\ IsReturn(Loaded)
    /\ \E key \in PlaceholderKeys :
           has_key(Loaded.value, key) /\ is_placeholder(getitem(Loaded.value, key))

\* (* C25 *) as claimed: the template written into an empty directory loads,
\* and validate_config returns for it a result that is not valid with
\* placeholder errors on account_id, user_pool_id, client_id and s3_bucket;
\* every get_aws_config call made while a template key still holds a
\* placeholder value raises a ValueError; and a call returns an AWSConfig
\* only when each of the four keys holds a string that is no placeholder.
C25_TemplateGatedUntilReplaced ==
    /\ (reply.op = "validate_config" /\ config_yaml = TemplateConfigFile) =>
           /\ IsReturn(Outcome)
           /\ ~Outcome.value.is_valid
           /\ PlaceholderErrorFields(Outcome.value) = PlaceholderKeys
    /\ (reply.op = "get_aws_config" /\ PlaceholderLeft) =>
           /\ Outcome.kind = "raise"
           /\ Outcome.exc = "ValueError"
    /\ (reply.op = "get_aws_config" /\ IsReturn(Outcome)) =>
           \A key \in PlaceholderKeys :
               /\ has_key(Loaded.value, key)
               /\ is_str(getitem(Loaded.value, key))
               /\ ~is_placeholder(getitem(Loaded.value, key))

====
